---- MODULE Spec2Model ----
(***************************************************************************)
(* The Earthsea bonus validator of warzone_map_utils                       *)
(* (validators/inss_validator.py): classification of a map feed into the   *)
(* ocean bonus, base bonuses and sub-bonuses, followed by validation.      *)
(*                                                                         *)
(* Strings are sequences of one-character strings, so that str.split,      *)
(* slicing and indexing are computed as Python computes them.  A Python    *)
(* dict is a sequence of [key, val] records with pairwise distinct keys    *)
(* (insertion order is iteration order).  print() appends one record to    *)
(* the variable out.                                                       *)
(***************************************************************************)
EXTENDS Integers, Sequences, FiniteSets, TLC

VARIABLES
    feed,        \* the "map" node of the game feed: territories and bonuses
    pc,          \* "start", "parsed", "loop", "done", "exit", "parse_error", "error"
    territories, \* EarthseaMap.territories (dict id -> Territory)
    bonuses,     \* EarthseaMap.bonuses (dict id -> Bonus / BaseBonus)
    idx,         \* position of EarthseaMap.validate's loop in bonuses.values()
    validates,   \* the local variable validates of EarthseaMap.validate
    out,         \* what has been printed so far
    results,     \* for each call of EarthseaMap.validate that has returned:
                 \* what it returned and how much was printed by then
    svg,         \* warzone_map_builder: the document (self.svg), a store of elements
    selection,   \* warzone_map_builder: self.svg.selection of the last run
    options,     \* warzone_map_builder: self.options of the last run
    outcome,     \* warzone_map_builder: the handler the last run invoked and
                 \* the exception that ended it ("" when it returned)
    runs         \* warzone_map_builder: how often the extension has run

validator_vars == <<feed, pc, territories, bonuses, idx, validates, out, results>>

builder_vars == <<svg, selection, options, outcome, runs>>

vars == <<feed, pc, territories, bonuses, idx, validates, out, results,
          svg, selection, options, outcome, runs>>

\* The most sub-bonuses of A that a feed draws from a pool
MaxSubs == 2

----------------------------------------------------------------------------
(* Sequences, dicts and strings *)

Range(s) == {s[k] : k \in DOMAIN s}

Last(s) == s[Len(s)]

AllButLast(s) == SubSeq(s, 1, Len(s) - 1)

\* d[k] = v on an insertion-ordered dict
DictPut(d, k, v) ==
    IF \E j \in DOMAIN d : d[j].key = k
    THEN [j \in DOMAIN d |-> IF d[j].key = k THEN [key |-> k, val |-> v] ELSE d[j]]
    ELSE Append(d, [key |-> k, val |-> v])

DictHas(d, k) == \E j \in DOMAIN d : d[j].key = k

DictGet(d, k) == d[CHOOSE j \in DOMAIN d : d[j].key = k].val

DictValues(d) == [j \in DOMAIN d |-> d[j].val]

\* s.split(' ')
RECURSIVE SplitAcc(_, _, _)
SplitAcc(s, cur, acc) ==
    IF s = <<>> THEN Append(acc, cur)
    ELSE IF Head(s) = " " THEN SplitAcc(Tail(s), <<>>, Append(acc, cur))
    ELSE SplitAcc(Tail(s), Append(cur, Head(s)), acc)

Split(s) == SplitAcc(s, <<>>, <<>>)

\* ' '.join(parts)
RECURSIVE Join(_)
Join(parts) ==
    IF parts = <<>> THEN <<>>
    ELSE IF Len(parts) = 1 THEN parts[1]
    ELSE parts[1] \o <<" ">> \o Join(Tail(parts))

\* c in s
Contains(s, c) == \E k \in DOMAIN s : s[k] = c

IsDigit(c) == c \in {"0", "1", "2", "3", "4", "5", "6", "7", "8", "9"}

\* int(c) for a one-character string c that is a decimal digit
DigitVal(c) ==
    CASE c = "0" -> 0 [] c = "1" -> 1 [] c = "2" -> 2 [] c = "3" -> 3
      [] c = "4" -> 4 [] c = "5" -> 5 [] c = "6" -> 6 [] c = "7" -> 7
      [] c = "8" -> 8 [] c = "9" -> 9

\* math.comb(n, k) for n, k >= 0
RECURSIVE comb(_, _)
comb(n, k) ==
    IF k = 0 THEN 1
    ELSE IF n = 0 THEN 0
    ELSE comb(n - 1, k - 1) + comb(n - 1, k)

----------------------------------------------------------------------------
(* set(territoryIDs) and tuple(territory_ids), as CPython builds and walks *)
(* a set of small non-negative ints.  A key hashes to itself.  The table   *)
(* has 8 slots; the add that fills a fifth slot moves the keys, in slot    *)
(* order, to a table of 32 slots (the model's sets stay below the 19 keys  *)
(* that would grow it again).  A probe starts at slot hash mod size, scans *)
(* that slot and the next 9 when they all exist, and otherwise jumps to    *)
(* (5 i + 1 + perturb) mod size with perturb shifted right by 5 bits.      *)
(* Iteration walks the slots in order.  A free slot holds -1.              *)

RECURSIVE SetSlot(_, _, _, _)
SetSlot(table, key, slot, perturb) ==
    LET mask == Len(table) - 1
        scan == IF slot + 9 <= mask THEN slot..(slot + 9) ELSE {slot}
        hits == {j \in scan : table[j + 1] = -1 \/ table[j + 1] = key}
    IN  IF hits # {} THEN CHOOSE j \in hits : \A h \in hits : j <= h
        ELSE SetSlot(table, key, (5 * slot + 1 + (perturb \div 32)) % (mask + 1),
                     perturb \div 32)

SetPlace(table, key) ==
    [table EXCEPT ![SetSlot(table, key, key % Len(table), key) + 1] = key]

RECURSIVE SetTable(_, _)
SetTable(table, keys) ==
    IF keys = <<>> THEN table ELSE SetTable(SetPlace(table, Head(keys)), Tail(keys))

SetKeys(table) == SelectSeq(table, LAMBDA key : key # -1)

\* set_add_key, with the resize that follows an add
SetAdd(table, key) ==
    LET added == SetPlace(table, key)
    IN  IF added # table /\ Len(SetKeys(added)) * 5 >= (Len(table) - 1) * 3
        THEN SetTable([k \in 1..32 |-> -1], SetKeys(added))
        ELSE added

RECURSIVE SetOf(_, _)
SetOf(table, ids) ==
    IF ids = <<>> THEN table ELSE SetOf(SetAdd(table, Head(ids)), Tail(ids))

\* tuple(set(ids)): the keys in slot order
SetIterOrder(ids) == SetKeys(SetOf([k \in 1..8 |-> -1], ids))

----------------------------------------------------------------------------
(* Entity model.  Bonus, BaseBonus and SubBonus objects are records of one *)
(* shape; cls is the runtime type, and a field a class does not have holds *)
(* 0 or the empty function.  A SubBonus refers to its base bonus by the    *)
(* base bonus's name, the key it was resolved with.  A set of SubBonus     *)
(* objects (hashed by identity) is a sequence without repetitions: its     *)
(* members in the arbitrary, fixed order in which the set iterates.        *)

\* Territory.parse_territory_from_api
parse_territory_from_api(t) ==
    [territory_id |-> t.id, name |-> t.name, connection_ids |-> Range(t.connectedTo)]

\* Bonus.parse_bonus_from_api
parse_bonus_from_api(b) ==
    [cls |-> "Bonus", bonus_id |-> b.id, name |-> b.name, value |-> b.value,
     territory_ids |-> Range(b.territoryIDs),
     ids_order |-> SetIterOrder(b.territoryIDs),
     base_territory_id |-> 0, sub_bonuses |-> <<>>, base_bonus |-> <<>>]

\* Bonus.__len__
len(bonus) == Cardinality(bonus.territory_ids)

\* BaseBonus.__init__, called as BaseBonus(**vars(bonus), base_territory_id=...)
BaseBonus(bonus, base_territory_id) ==
    [bonus EXCEPT !.cls = "BaseBonus",
                  !.base_territory_id = base_territory_id,
                  !.sub_bonuses = [k \in 2..len(bonus) |-> {}]]

\* The constructor without the assignment of line 63
SubBonus_without_base_bonus(bonus, base_bonus_name) == [bonus EXCEPT !.cls = "SubBonus"]

\* SubBonus.__init__, called as SubBonus(**vars(bonus), base_bonus=base_bonus)
SubBonus(bonus, base_bonus_name) ==
    [bonus EXCEPT !.cls = "SubBonus", !.base_bonus = base_bonus_name]

\* SubBonus.get_base_bonus_name
get_base_bonus_name(sub_bonus_name) ==
    Join(AllButLast(Split(IF sub_bonus_name = <<>> THEN <<>> ELSE Tail(sub_bonus_name))))

\* int(name.split(' ')[-1][0]) raises IndexError on an empty last token and
\* ValueError on a first character that is no digit
size_token_raises(name) ==
    LET token == Last(Split(name))
    IN  token = <<>> \/ ~IsDigit(token[1])

\* The size taken as the digit plus two
get_sub_bonus_size_plus_two(sub_bonus_name) == DigitVal(Last(Split(sub_bonus_name))[1]) + 2

\* SubBonus.get_sub_bonus_size
get_sub_bonus_size(sub_bonus_name) == DigitVal(Last(Split(sub_bonus_name))[1]) + 1

\* SubBonus.intended_size
intended_size(sub_bonus) == DigitVal(Last(Split(sub_bonus.name))[1]) + 1

\* EarthseaMap.OCEAN_BONUS_ID
OCEAN_BONUS_ID == 1

----------------------------------------------------------------------------
(* Bonus classification: EarthseaMap.parse_map_from_api *)

\* Map.parse_territories_from_api
RECURSIVE parse_territories_from_api(_)
parse_territories_from_api(ts) ==
    IF ts = <<>> THEN <<>>
    ELSE DictPut(parse_territories_from_api(AllButLast(ts)),
                 Last(ts).id, parse_territory_from_api(Last(ts)))

\* Map.parse_bonuses_from_api
RECURSIVE parse_bonuses_from_api(_)
parse_bonuses_from_api(bs) ==
    IF bs = <<>> THEN <<>>
    ELSE DictPut(parse_bonuses_from_api(AllButLast(bs)),
                 Last(bs).id, parse_bonus_from_api(Last(bs)))

\* territory_name_map = {territory.name: territory for ...}
RECURSIVE territory_name_map(_)
territory_name_map(ts) ==
    IF ts = <<>> THEN <<>>
    ELSE DictPut(territory_name_map(AllButLast(ts)), Last(ts).name, Last(ts))

\* The first loop passing over a bonus that is named as no territory
RECURSIVE base_bonus_loop_skipping(_, _, _)
base_bonus_loop_skipping(all, name_map, acc) ==
    IF all = <<>> THEN acc
    ELSE LET bonus == Head(all)
         IN  IF /\ ~Contains(bonus.name, "~") /\ bonus.bonus_id # OCEAN_BONUS_ID
                /\ DictHas(name_map, bonus.name)
             THEN base_bonus_loop_skipping(Tail(all), name_map,
                    [acc EXCEPT !.bonuses = DictPut(@, bonus.name,
                        BaseBonus(bonus, DictGet(name_map, bonus.name).territory_id))])
             ELSE base_bonus_loop_skipping(Tail(all), name_map, acc)

\* The first loop: every bonus without '~' in its name, other than the
\* ocean bonus, becomes a BaseBonus keyed by its name.  acc.raised records a
\* KeyError of territory_name_map[bonus.name].
RECURSIVE base_bonus_loop(_, _, _)
base_bonus_loop(all, name_map, acc) ==
    IF all = <<>> \/ acc.raised THEN acc
    ELSE LET bonus == Head(all)
         IN  IF ~Contains(bonus.name, "~") /\ bonus.bonus_id # OCEAN_BONUS_ID
             THEN IF ~DictHas(name_map, bonus.name)
                  THEN [acc EXCEPT !.raised = TRUE]
                  ELSE base_bonus_loop(Tail(all), name_map,
                         [acc EXCEPT !.bonuses = DictPut(@, bonus.name,
                             BaseBonus(bonus, DictGet(name_map, bonus.name).territory_id))])
             ELSE base_bonus_loop(Tail(all), name_map, acc)

\* The second loop passing over a sub-bonus whose base bonus name is the name
\* of no BaseBonus
RECURSIVE sub_bonus_loop_skipping(_, _)
sub_bonus_loop_skipping(all, acc) ==
    IF all = <<>> \/ acc.raised THEN acc
    ELSE LET bonus == Head(all)
             base_bonus_name == get_base_bonus_name(bonus.name)
         IN  IF /\ Contains(bonus.name, "~")
                /\ DictHas(acc.bonuses, base_bonus_name)
                /\ DictGet(acc.bonuses, base_bonus_name).cls = "BaseBonus"
             THEN IF \/ size_token_raises(bonus.name)
                     \/ get_sub_bonus_size(bonus.name) \notin
                            DOMAIN DictGet(acc.bonuses, base_bonus_name).sub_bonuses
                  THEN [acc EXCEPT !.raised = TRUE]
                  ELSE LET base_bonus == DictGet(acc.bonuses, base_bonus_name)
                           sub_bonus == SubBonus(bonus, base_bonus_name)
                       IN  sub_bonus_loop_skipping(Tail(all),
                             [acc EXCEPT !.bonuses = DictPut(@, base_bonus_name,
                                 [base_bonus EXCEPT
                                    !.sub_bonuses[get_sub_bonus_size(bonus.name)] =
                                        @ \cup {sub_bonus}])])
             ELSE sub_bonus_loop_skipping(Tail(all), acc)

\* The second loop: every bonus with '~' in its name becomes a SubBonus of
\* bonuses[base_bonus_name], added to sub_bonuses[sub_bonus_size].  It raises
\* on a size token that does not parse, on a base bonus name that is no key
\* (KeyError), on a base bonus without sub_bonuses (the ocean bonus,
\* AttributeError) and on a size that is no key of sub_bonuses (KeyError).
RECURSIVE sub_bonus_loop(_, _)
sub_bonus_loop(all, acc) ==
    IF all = <<>> \/ acc.raised THEN acc
    ELSE LET bonus == Head(all)
             base_bonus_name == get_base_bonus_name(bonus.name)
         IN  IF Contains(bonus.name, "~")
             THEN IF \/ size_token_raises(bonus.name)
                     \/ ~DictHas(acc.bonuses, base_bonus_name)
                     \/ DictGet(acc.bonuses, base_bonus_name).cls # "BaseBonus"
                     \/ get_sub_bonus_size(bonus.name) \notin
                            DOMAIN DictGet(acc.bonuses, base_bonus_name).sub_bonuses
                  THEN [acc EXCEPT !.raised = TRUE]
                  ELSE LET base_bonus == DictGet(acc.bonuses, base_bonus_name)
                           sub_bonus == SubBonus(bonus, base_bonus_name)
                       IN  sub_bonus_loop(Tail(all),
                             [acc EXCEPT !.bonuses = DictPut(@, base_bonus_name,
                                 [base_bonus EXCEPT
                                    !.sub_bonuses[get_sub_bonus_size(bonus.name)] =
                                        @ \cup {sub_bonus}])])
             ELSE sub_bonus_loop(Tail(all), acc)

\* bonuses = {bonus.bonus_id: bonus for bonus in bonuses.values()}
RECURSIVE rekey_by_id(_)
rekey_by_id(d) ==
    IF d = <<>> THEN <<>>
    ELSE DictPut(rekey_by_id(AllButLast(d)), Last(d).val.bonus_id, Last(d).val)

\* The classification up to its return: raised, or the dict of bonuses with
\* each sub_bonuses[k] still a plain set.
classify(f) ==
    LET all_bonuses == parse_bonuses_from_api(f.bonuses)
        name_map == territory_name_map(DictValues(parse_territories_from_api(f.territories)))
    IN  IF ~DictHas(all_bonuses, OCEAN_BONUS_ID)
        THEN [raised |-> TRUE, bonuses |-> <<>>]
        ELSE LET ocean_bonus == DictGet(all_bonuses, OCEAN_BONUS_ID)
                 first == base_bonus_loop(DictValues(all_bonuses), name_map,
                            [raised |-> FALSE,
                             bonuses |-> <<[key |-> ocean_bonus.name, val |-> ocean_bonus]>>])
                 second == sub_bonus_loop(DictValues(all_bonuses), first)
             IN  IF second.raised THEN [raised |-> TRUE, bonuses |-> <<>>]
                 ELSE [raised |-> FALSE, bonuses |-> rekey_by_id(second.bonuses)]

\* Every order in which a set can iterate
RECURSIVE Orders(_)
Orders(S) ==
    IF S = {} THEN {<<>>}
    ELSE UNION {{<<x>> \o p : p \in Orders(S \ {x})} : x \in S}

\* Every way to fix the iteration order of sub_bonuses[2], ..., sub_bonuses[n]
RECURSIVE sub_bonus_orders(_, _)
sub_bonus_orders(sub_bonuses, n) ==
    IF n < 2 THEN {<<>>}
    ELSE {g @@ (n :> p) : g \in sub_bonus_orders(sub_bonuses, n - 1),
                          p \in Orders(sub_bonuses[n])}

bonus_orders(bonus) ==
    IF bonus.cls = "BaseBonus"
    THEN {[bonus EXCEPT !.sub_bonuses = g] : g \in sub_bonus_orders(bonus.sub_bonuses, len(bonus))}
    ELSE {bonus}

RECURSIVE dict_orders(_)
dict_orders(d) ==
    IF d = <<>> THEN {<<>>}
    ELSE {<<[key |-> Head(d).key, val |-> v]>> \o rest :
             v \in bonus_orders(Head(d).val), rest \in dict_orders(Tail(d))}

----------------------------------------------------------------------------
(* Validation engine.  A validate method yields [raised, validates, out]:  *)
(* whether it raised, the boolean it returns otherwise, and what it        *)
(* printed until then.                                                     *)

\* One printed line: its kind (which print statement) and the values its
\* f-string interpolates; a field the line does not have holds 0, {} or <<>>.
\* by is no part of the text: it is the bonus_id of the bonus whose method
\* printed the line (0 for validate_ocean_bonus and validate_earthsea_map).
Line(kind, by, name, size, expected, actual, ids, other) ==
    [kind |-> kind, by |-> by, name |-> name, size |-> size, expected |-> expected,
     actual |-> actual, ids |-> ids, other |-> other]

\* SubBonus.INTENDED_VALUE_BY_SIZE
SubBonus_INTENDED_VALUE_BY_SIZE ==
    (2 :> 1) @@ (3 :> -1) @@ (4 :> 2) @@ (5 :> -4) @@ (6 :> 8)

\* SubBonus.INTENDED_VALUE_BY_SIZE_FULL
SubBonus_INTENDED_VALUE_BY_SIZE_FULL ==
    (2 :> 1) @@ (3 :> -2) @@ (4 :> 0) @@ (5 :> -6) @@ (6 :> 5)

\* The table carried on to seven territories
BaseBonus_INTENDED_VALUE_BY_SIZE_extended ==
    (2 :> 0) @@ (3 :> 1) @@ (4 :> 2) @@ (5 :> 2) @@ (6 :> 3) @@ (7 :> 3)

\* BaseBonus.INTENDED_VALUE_BY_SIZE
BaseBonus_INTENDED_VALUE_BY_SIZE ==
    (2 :> 0) @@ (3 :> 1) @@ (4 :> 2) @@ (5 :> 2) @@ (6 :> 3)

\* The two tables taken for each other
SubBonus_value_map_swapped(sub_bonus, base_bonus) ==
    IF len(sub_bonus) = len(base_bonus)
    THEN SubBonus_INTENDED_VALUE_BY_SIZE
    ELSE SubBonus_INTENDED_VALUE_BY_SIZE_FULL

\* SubBonus.intended_value: the table it reads
SubBonus_value_map(sub_bonus, base_bonus) ==
    IF len(sub_bonus) = len(base_bonus)
    THEN SubBonus_INTENDED_VALUE_BY_SIZE_FULL
    ELSE SubBonus_INTENDED_VALUE_BY_SIZE

\* SubBonus.intended_value (a KeyError when the size is no key of the table)
SubBonus_intended_value_raises(sub_bonus, base_bonus) ==
    intended_size(sub_bonus) \notin DOMAIN SubBonus_value_map(sub_bonus, base_bonus)

SubBonus_intended_value(sub_bonus, base_bonus) ==
    SubBonus_value_map(sub_bonus, base_bonus)[intended_size(sub_bonus)]

\* The size check with <= for ==
correct_size_at_most(self) == len(self) <= intended_size(self)

\* SubBonus.validate, line 79
correct_size(self) == len(self) = intended_size(self)

\* SubBonus.validate, line 84
SubBonus_correct_value(self, base_bonus) ==
    self.value = SubBonus_intended_value(self, base_bonus)

\* The subset check with the difference taken the other way round
subset_reversed(self, base_bonus) == (base_bonus.territory_ids \ self.territory_ids) = {}

\* SubBonus.validate, line 89
subset(self, base_bonus) == (self.territory_ids \ base_bonus.territory_ids) = {}

\* validate returning at its first failed check
SubBonus_validate_first_failure(self, base_bonus) ==
    IF ~correct_size(self)
    THEN [raised |-> FALSE, validates |-> FALSE,
          out |-> <<Line("sub_size", self.bonus_id, self.name, 0,
                         intended_size(self), len(self), {}, <<>>)>>]
    ELSE IF SubBonus_intended_value_raises(self, base_bonus)
    THEN [raised |-> TRUE, validates |-> FALSE, out |-> <<>>]
    ELSE IF ~SubBonus_correct_value(self, base_bonus)
    THEN [raised |-> FALSE, validates |-> FALSE,
          out |-> <<Line("value", self.bonus_id, self.name, 0,
                         SubBonus_intended_value(self, base_bonus), self.value, {}, <<>>)>>]
    ELSE IF ~subset(self, base_bonus)
    THEN [raised |-> FALSE, validates |-> FALSE,
          out |-> <<Line("subset", self.bonus_id, self.name, 0, 0, 0, {}, base_bonus.name)>>]
    ELSE [raised |-> FALSE, validates |-> TRUE, out |-> <<>>]

\* SubBonus.validate
SubBonus_validate(self, base_bonus) ==
    LET size_out == IF correct_size(self) THEN <<>>
                    ELSE <<Line("sub_size", self.bonus_id, self.name, 0,
                                intended_size(self), len(self), {}, <<>>)>>
    IN  IF SubBonus_intended_value_raises(self, base_bonus)
        THEN [raised |-> TRUE, validates |-> FALSE, out |-> size_out]
        ELSE LET value_out == IF SubBonus_correct_value(self, base_bonus) THEN <<>>
                              ELSE <<Line("value", self.bonus_id, self.name, 0,
                                          SubBonus_intended_value(self, base_bonus),
                                          self.value, {}, <<>>)>>
                 subset_out == IF subset(self, base_bonus) THEN <<>>
                               ELSE <<Line("subset", self.bonus_id, self.name, 0, 0, 0, {},
                                           base_bonus.name)>>
             IN  [raised |-> FALSE,
                  validates |-> /\ correct_size(self)
                                /\ SubBonus_correct_value(self, base_bonus)
                                /\ subset(self, base_bonus),
                  out |-> size_out \o value_out \o subset_out]

\* for sub_bonus in sub_bonuses: validates &= sub_bonus.validate()
RECURSIVE validate_sub_bonuses(_, _, _)
validate_sub_bonuses(sub_bonuses, base_bonus, acc) ==
    IF sub_bonuses = <<>> \/ acc.raised THEN acc
    ELSE LET r == SubBonus_validate(Head(sub_bonuses), base_bonus)
         IN  validate_sub_bonuses(Tail(sub_bonuses), base_bonus,
                 [raised |-> r.raised,
                  validates |-> acc.validates /\ r.validates,
                  out |-> acc.out \o r.out])

\* The count check against the number line 141 prints
correct_sub_bonus_count_as_printed(self, i) ==
    Len(self.sub_bonuses[i]) = comb(len(self), i)

\* The check of line 139: the base bonus has the correct number of
\* sub-bonuses of size i
correct_sub_bonus_count(self, i) ==
    Len(self.sub_bonuses[i]) = comb(len(self) - 1, i - 1)

\* The number line 141 prints as the number there should be
printed_sub_bonus_count(self, i) == comb(len(self), i)

\* The check of line 145: all sub-bonuses of size i have distinct tuples
distinct(self, i) ==
    Cardinality({self.sub_bonuses[i][j].ids_order : j \in DOMAIN self.sub_bonuses[i]})
        = Len(self.sub_bonuses[i])

\* for i, sub_bonuses in self.sub_bonuses.items(), from size i on
RECURSIVE validate_sizes(_, _, _)
validate_sizes(self, i, acc) ==
    IF i > len(self) \/ acc.raised THEN acc
    ELSE LET count_out == IF correct_sub_bonus_count(self, i) THEN <<>>
                          ELSE <<Line("count", self.bonus_id, self.name, i,
                                      printed_sub_bonus_count(self, i),
                                      Len(self.sub_bonuses[i]), {}, <<>>)>>
             distinct_out == IF distinct(self, i) THEN <<>>
                             ELSE <<Line("distinct", self.bonus_id, self.name, i, 0, 0, {}, <<>>)>>
             here == [raised |-> FALSE,
                      validates |-> /\ acc.validates
                                    /\ correct_sub_bonus_count(self, i)
                                    /\ distinct(self, i),
                      out |-> acc.out \o count_out \o distinct_out]
         IN  validate_sizes(self, i + 1,
                 validate_sub_bonuses(self.sub_bonuses[i], self, here))

\* BaseBonus.intended_value (a KeyError when len(self) is no key of the table)
BaseBonus_intended_value_raises(self) ==
    len(self) \notin DOMAIN BaseBonus_INTENDED_VALUE_BY_SIZE

\* The value read from the sub-bonuses' table
BaseBonus_intended_value_of_sub_bonus(self) == SubBonus_INTENDED_VALUE_BY_SIZE[len(self)]

BaseBonus_intended_value(self) == BaseBonus_INTENDED_VALUE_BY_SIZE[len(self)]

\* BaseBonus.validate, line 132
BaseBonus_correct_value(self) == self.value = BaseBonus_intended_value(self)

\* BaseBonus.sea_territory_ids
sea_territory_ids(self) == self.territory_ids \ {self.base_territory_id}

\* validate checking the value after the sub-bonuses
BaseBonus_validate_value_last(self) ==
    IF BaseBonus_intended_value_raises(self)
    THEN [raised |-> TRUE, validates |-> FALSE, out |-> <<>>]
    ELSE LET value_out == IF BaseBonus_correct_value(self) THEN <<>>
                          ELSE <<Line("value", self.bonus_id, self.name, 0,
                                      BaseBonus_intended_value(self), self.value, {}, <<>>)>>
             sizes == validate_sizes(self, 2,
                          [raised |-> FALSE, validates |-> TRUE, out |-> <<>>])
         IN  IF sizes.raised THEN sizes
             ELSE [raised |-> FALSE,
                   validates |-> sizes.validates /\ BaseBonus_correct_value(self),
                   out |-> sizes.out \o value_out]

\* BaseBonus.validate
BaseBonus_validate(self) ==
    IF BaseBonus_intended_value_raises(self)
    THEN [raised |-> TRUE, validates |-> FALSE, out |-> <<>>]
    ELSE LET value_out == IF BaseBonus_correct_value(self) THEN <<>>
                          ELSE <<Line("value", self.bonus_id, self.name, 0,
                                      BaseBonus_intended_value(self), self.value, {}, <<>>)>>
         IN  validate_sizes(self, 2,
                 [raised |-> FALSE, validates |-> BaseBonus_correct_value(self),
                  out |-> value_out])

\* Bonus.validate
Bonus_validate(self) == [raised |-> FALSE, validates |-> TRUE, out |-> <<>>]

\* bonus.validate(), dispatched on the runtime type
validate_bonus(bonus) ==
    IF bonus.cls = "BaseBonus" THEN BaseBonus_validate(bonus) ELSE Bonus_validate(bonus)

\* EarthseaMap.ocean_bonus
ocean_bonus(bs) == DictGet(bs, OCEAN_BONUS_ID)

\* base_territory_ids of validate_ocean_bonus
base_territory_ids(bs) ==
    {bs[j].val.base_territory_id : j \in {k \in DOMAIN bs : bs[k].val.cls = "BaseBonus"}}

\* overlap with the difference taken instead of the intersection
overlap_difference(bs) == base_territory_ids(bs) \ ocean_bonus(bs).territory_ids

\* overlap of validate_ocean_bonus
overlap(bs) == base_territory_ids(bs) \cap ocean_bonus(bs).territory_ids

\* incomplete of validate_ocean_bonus: Python reads a - b | c as (a - b) | c
incomplete(ts, bs) ==
    ({ts[j].key : j \in DOMAIN ts} \ base_territory_ids(bs))
        \cup ocean_bonus(bs).territory_ids

\* validate_ocean_bonus returning not overlap
validate_ocean_bonus_returning_not_overlap(ts, bs) ==
    [raised |-> FALSE,
     validates |-> overlap(bs) = {},
     out |-> (IF overlap(bs) # {}
              THEN <<Line("overlap", 0, <<>>, 0, 0, 0, overlap(bs), <<>>)>> ELSE <<>>)
             \o (IF incomplete(ts, bs) # {}
                 THEN <<Line("incomplete", 0, <<>>, 0, 0, 0, incomplete(ts, bs), <<>>)>>
                 ELSE <<>>)]

\* EarthseaMap.validate_ocean_bonus
validate_ocean_bonus(ts, bs) ==
    [raised |-> FALSE,
     validates |-> overlap(bs) = {} /\ incomplete(ts, bs) = {},
     out |-> (IF overlap(bs) # {}
              THEN <<Line("overlap", 0, <<>>, 0, 0, 0, overlap(bs), <<>>)>> ELSE <<>>)
             \o (IF incomplete(ts, bs) # {}
                 THEN <<Line("incomplete", 0, <<>>, 0, 0, 0, incomplete(ts, bs), <<>>)>>
                 ELSE <<>>)]

\* for bonus in self.bonuses.values(): validates &= bonus.validate()
RECURSIVE validate_bonuses(_, _)
validate_bonuses(values, acc) ==
    IF values = <<>> \/ acc.raised THEN acc
    ELSE LET r == validate_bonus(Head(values))
         IN  validate_bonuses(Tail(values),
                 [raised |-> r.raised,
                  validates |-> acc.validates /\ r.validates,
                  out |-> acc.out \o r.out])

\* EarthseaMap.validate, from its call to its return or to the exception
\* that ends it (self.ocean_bonus raises KeyError on a map without it)
EarthseaMap_validate(ts, bs) ==
    IF ~DictHas(bs, OCEAN_BONUS_ID)
    THEN [raised |-> TRUE, validates |-> FALSE, out |-> <<>>]
    ELSE validate_bonuses(DictValues(bs), validate_ocean_bonus(ts, bs))

\* EarthseaMap.validate_base_bonus: its check of the sea territories.  No
\* code of the module calls validate_base_bonus.
correct_territories(ts, bs, base_bonus) ==
    (DictGet(ts, base_bonus.base_territory_id).connection_ids
        \cap ocean_bonus(bs).territory_ids) = sea_territory_ids(base_bonus)

----------------------------------------------------------------------------
(* The feeds of the model.  The bonus list of a feed is the ocean bonus    *)
(* (id 1), the base bonus A of territory A (id 10), and further records.   *)
(* The small feeds have territory A alone or with its neighbours B (20)    *)
(* and C (30), a base bonus A of two or three territories, at most MaxSubs *)
(* sub-bonuses of A and, with territory B, optionally the base bonus B     *)
(* with its sub-bonus.  The complete feeds are small feeds with the two    *)
(* sub-bonuses of size 2 and the one of size 3 that a base bonus A         *)
(* of three territories is to have.  The faulty feeds add what makes       *)
(* classification or validation raise: a base bonus A of one territory, a  *)
(* base bonus B without a territory B, a sub-bonus of a base bonus that is *)
(* not there, a sub-bonus of size 1.  The large feeds have the six         *)
(* territories A to F and a base bonus A of four to six, so that every     *)
(* size of the reward tables occurs.  The broken feeds have a sub-bonus    *)
(* that fails its three checks at once.  The duplicate feeds have two      *)
(* bonus records of one name; the huge feeds have the seven territories A  *)
(* to G and a base bonus A of all seven.  Id 18 is the id of no territory, *)
(* and meets id 10 in the same slot of a set's table.                      *)

Territory(id, name, connectedTo) ==
    [id |-> id, name |-> name, connectedTo |-> connectedTo]

BonusRecord(name, value, territoryIDs) ==
    [name |-> name, value |-> value, territoryIDs |-> territoryIDs]

SubName(base, token) == <<"~">> \o base \o <<" ">> \o token

OceanName == <<"O", "c", "e", "a", "n">>

IslandTerritories == <<Territory(10, <<"A">>, <<>>)>>

SmallTerritories ==
    << Territory(10, <<"A">>, <<20, 30>>), Territory(20, <<"B">>, <<10, 30>>),
       Territory(30, <<"C">>, <<10, 20>>) >>

SmallOceanRecords ==
    { BonusRecord(OceanName, 0, ids) : ids \in {<<>>, <<20, 30>>, <<10, 20, 30>>} }

SmallBaseARecords ==
    { BonusRecord(<<"A">>, v, ids) : v \in {0, 1}, ids \in {<<10, 20>>, <<10, 20, 30>>} }

BaseB == BonusRecord(<<"B">>, 0, <<20, 10>>)

SubB == BonusRecord(SubName(<<"B">>, <<"1", "a">>), 1, <<10, 20>>)

\* The territories of a small feed with the records of its bonus list that
\* concern B
SmallMaps ==
    { <<IslandTerritories, <<>>>>, <<SmallTerritories, <<>>>>,
      <<SmallTerritories, <<BaseB, SubB>>>> }

SmallSubPool ==
    << BonusRecord(SubName(<<"A">>, <<"1", "a">>), 1,  <<10, 20>>),
       BonusRecord(SubName(<<"A">>, <<"1", "b">>), 1,  <<10, 30>>),
       BonusRecord(SubName(<<"A">>, <<"1", "c">>), -1, <<20, 10>>),
       BonusRecord(SubName(<<"A">>, <<"1", "d">>), 1,  <<10, 20, 30>>),
       BonusRecord(SubName(<<"A">>, <<"2", "a">>), -2, <<10, 20, 30>>),
       BonusRecord(SubName(<<"A">>, <<"2", "b">>), -1, <<10, 30>>),
       BonusRecord(SubName(<<"A">>, <<"1", "e">>), 1,  <<10, 18>>),
       BonusRecord(SubName(<<"A">>, <<"1", "f">>), 1,  <<18, 10>>) >>

FaultyBaseARecords ==
    SmallBaseARecords \cup { BonusRecord(<<"A">>, v, <<10>>) : v \in {0, 1} }

FaultyRecords ==
    { <<>>, <<BaseB>>, <<SubB>>, <<SmallSubPool[1]>>,
      <<BonusRecord(SubName(<<"A">>, <<"0", "a">>), 1, <<10, 20>>)>> }

LargeTerritories ==
    << Territory(10, <<"A">>, <<20, 30, 40, 50, 60>>), Territory(20, <<"B">>, <<10>>),
       Territory(30, <<"C">>, <<10>>), Territory(40, <<"D">>, <<10>>),
       Territory(50, <<"E">>, <<10>>), Territory(60, <<"F">>, <<10>>) >>

LargeOceanRecord == BonusRecord(OceanName, 0, <<20, 30, 40, 50, 60>>)

LargeBaseARecords ==
    { BonusRecord(<<"A">>, v, ids) :
        v \in {2, 3},
        ids \in {<<10, 20, 30, 40>>, <<10, 20, 30, 40, 50>>, <<10, 20, 30, 40, 50, 60>>} }

LargeSubPool ==
    << BonusRecord(SubName(<<"A">>, <<"3", "a">>), 0,  <<10, 20, 30, 40>>),
       BonusRecord(SubName(<<"A">>, <<"3", "b">>), 2,  <<10, 20, 30, 40>>),
       BonusRecord(SubName(<<"A">>, <<"3", "c">>), 2,  <<10, 20, 30, 50>>),
       BonusRecord(SubName(<<"A">>, <<"4", "a">>), -6, <<10, 20, 30, 40, 50>>),
       BonusRecord(SubName(<<"A">>, <<"4", "b">>), -4, <<10, 20, 30, 40, 50>>),
       BonusRecord(SubName(<<"A">>, <<"4", "c">>), -4, <<10, 20, 30, 40, 60>>),
       BonusRecord(SubName(<<"A">>, <<"5", "a">>), 5,  <<10, 20, 30, 40, 50, 60>>),
       BonusRecord(SubName(<<"A">>, <<"5", "b">>), 8,  <<10, 20, 30, 40, 50, 60>>),
       BonusRecord(SubName(<<"A">>, <<"5", "c">>), 8,  <<10, 20, 30, 40, 50>>),
       BonusRecord(SubName(<<"A">>, <<"6", "a">>), 8,  <<10, 20, 30, 40, 50, 60>>) >>

\* A second base bonus named A
SecondBaseA == BonusRecord(<<"A">>, 1, <<10, 30>>)

\* A sub-bonus record whose base bonus name is the ocean bonus's name
SubOcean == BonusRecord(SubName(OceanName, <<"1", "a">>), 1, <<20, 30>>)

\* Bonus lists in which two records share a name, or a sub-bonus is named
\* after the ocean bonus: a second base bonus A, the same sub-bonus record
\* twice, an ocean bonus named A
DuplicateBonusLists(o, a) ==
    LET oceanA == BonusRecord(<<"A">>, o.value, o.territoryIDs)
    IN  { <<o, a, SecondBaseA>>, <<o, a, SecondBaseA, SmallSubPool[1]>>,
          <<o, a, SmallSubPool[1], SmallSubPool[1]>>, <<o, a, SubOcean>>,
          <<oceanA, a>>, <<oceanA, a, SmallSubPool[1]>>, <<oceanA, SmallSubPool[1]>> }

HugeTerritories ==
    << Territory(10, <<"A">>, <<20, 30, 40, 50, 60, 70>>), Territory(20, <<"B">>, <<10>>),
       Territory(30, <<"C">>, <<10>>), Territory(40, <<"D">>, <<10>>),
       Territory(50, <<"E">>, <<10>>), Territory(60, <<"F">>, <<10>>),
       Territory(70, <<"G">>, <<10>>) >>

HugeOceanRecord == BonusRecord(OceanName, 0, <<20, 30, 40, 50, 60, 70>>)

HugeBaseARecords ==
    { BonusRecord(<<"A">>, v, <<10, 20, 30, 40, 50, 60, 70>>) : v \in {3, 4} }

\* What comes with a base bonus A of seven territories: nothing, the base
\* bonus B, or a sub-bonus of A of size 2, 6 or 7
HugeRecords ==
    { <<>>, <<BaseB>>, <<SmallSubPool[1]>>, <<LargeSubPool[7]>>,
      <<BonusRecord(SubName(<<"A">>, <<"6", "b">>), 8, <<10, 20, 30, 40, 50, 60, 70>>)>> }

\* A sub-bonus of A that fails every check of SubBonus.validate
BrokenSub == BonusRecord(SubName(<<"A">>, <<"1", "g">>), 0, <<10, 18, 30>>)

\* The records of pool at the indices I, in the pool's order
RECURSIVE SubRecords(_, _)
SubRecords(pool, I) ==
    IF I = {} THEN <<>>
    ELSE LET m == CHOOSE x \in I : \A y \in I : x <= y
         IN  <<pool[m]>> \o SubRecords(pool, I \ {m})

\* The lists of at most MaxSubs records of pool
SubLists(pool) ==
    { SubRecords(pool, I) : I \in {J \in SUBSET DOMAIN pool : Cardinality(J) <= MaxSubs} }

\* A bonus list of the feed: each record gets its position as its id, so the
\* ocean bonus, which comes first, has id 1
WithIds(records) ==
    [k \in DOMAIN records |->
        [id |-> k, name |-> records[k].name, value |-> records[k].value,
         territoryIDs |-> records[k].territoryIDs]]

SmallFeeds ==
    { [territories |-> m[1], bonuses |-> WithIds(<<o, a>> \o m[2] \o subs)] :
        m \in SmallMaps, o \in SmallOceanRecords, a \in SmallBaseARecords,
        subs \in SubLists(SmallSubPool) }

CompleteFeeds ==
    { [territories |-> m[1],
       bonuses |-> WithIds(<<o, a>> \o m[2]
                           \o <<SmallSubPool[1], SmallSubPool[2], SmallSubPool[5]>>)] :
        m \in SmallMaps, o \in SmallOceanRecords, a \in SmallBaseARecords }

FaultyFeeds ==
    { [territories |-> ts, bonuses |-> WithIds(<<o, a>> \o rest)] :
        ts \in {IslandTerritories, SmallTerritories}, o \in SmallOceanRecords,
        a \in FaultyBaseARecords, rest \in FaultyRecords }

LargeFeeds ==
    { [territories |-> LargeTerritories,
       bonuses |-> WithIds(<<LargeOceanRecord, a>> \o subs)] :
        a \in LargeBaseARecords, subs \in SubLists(LargeSubPool) }

BrokenFeeds ==
    { [territories |-> m[1], bonuses |-> WithIds(<<o, a>> \o m[2] \o subs)] :
        m \in SmallMaps, o \in SmallOceanRecords, a \in SmallBaseARecords,
        subs \in {<<BrokenSub>>, <<SmallSubPool[1], BrokenSub>>} }

DuplicateFeeds ==
    { [territories |-> SmallTerritories, bonuses |-> WithIds(records)] :
        records \in UNION {DuplicateBonusLists(o, a) :
                              o \in SmallOceanRecords, a \in SmallBaseARecords} }

HugeFeeds ==
    { [territories |-> HugeTerritories,
       bonuses |-> WithIds(<<HugeOceanRecord, a>> \o rest)] :
        a \in HugeBaseARecords, rest \in HugeRecords }

Feeds ==
    SmallFeeds \cup CompleteFeeds \cup FaultyFeeds \cup LargeFeeds
        \cup BrokenFeeds \cup DuplicateFeeds \cup HugeFeeds

----------------------------------------------------------------------------
(* The run of validate_earthsea_map *)

\* parse_map_from_api followed by validate, as one computation on a feed,
\* with the sets of sub-bonuses iterating in one of their orders
parse_and_validate(f) ==
    LET c == classify(f)
    IN  IF c.raised THEN [raised |-> TRUE, validates |-> FALSE, out |-> <<>>]
        ELSE EarthseaMap_validate(parse_territories_from_api(f.territories),
                                  CHOOSE d \in dict_orders(c.bonuses) : TRUE)

\* warzone_map_builder is a program of its own: it does not run here
BuilderIdle ==
    /\ svg = <<>>
    /\ selection = <<>>
    /\ options = <<>>
    /\ outcome = <<>>
    /\ runs = 0

Init ==
    /\ feed \in Feeds
    /\ pc = "start"
    /\ territories = <<>>
    /\ bonuses = <<>>
    /\ idx = 0
    /\ validates = TRUE
    /\ out = <<>>
    /\ results = <<>>
    /\ BuilderIdle

\* EarthseaMap.parse_map_from_api: the Map, or an exception that ends the run
ParseMap ==
    /\ pc = "start"
    /\ LET c == classify(feed)
       IN  IF c.raised
           THEN /\ pc' = "parse_error"
                /\ UNCHANGED <<territories, bonuses>>
           ELSE /\ pc' = "parsed"
                /\ territories' = parse_territories_from_api(feed.territories)
                /\ bonuses' \in dict_orders(c.bonuses)
    /\ UNCHANGED <<feed, idx, validates, out, results>>
    /\ UNCHANGED builder_vars

\* EarthseaMap.validate, line 242: validates = self.validate_ocean_bonus()
ValidateOceanBonus ==
    /\ pc = "parsed"
    /\ IF ~DictHas(bonuses, OCEAN_BONUS_ID)
       THEN /\ pc' = "error"
            /\ UNCHANGED <<idx, validates, out>>
       ELSE LET r == validate_ocean_bonus(territories, bonuses)
            IN  /\ pc' = "loop"
                /\ idx' = 1
                /\ validates' = r.validates
                /\ out' = out \o r.out
    /\ UNCHANGED <<feed, territories, bonuses, results>>
    /\ UNCHANGED builder_vars

\* The loop never leaving a base bonus
ValidateBonus_stalling ==
    /\ pc = "loop"
    /\ idx <= Len(bonuses)
    /\ idx' = IF bonuses[idx].val.cls = "BaseBonus" THEN idx ELSE idx + 1
    /\ UNCHANGED <<feed, pc, territories, bonuses, validates, out, results>>
    /\ UNCHANGED builder_vars

\* The loop taking the sub-bonuses out of the sets it has validated
ValidateBonus_consuming ==
    /\ pc = "loop"
    /\ idx <= Len(bonuses)
    /\ LET r == validate_bonus(bonuses[idx].val)
       IN  /\ out' = out \o r.out
           /\ IF r.raised
              THEN /\ pc' = "error"
                   /\ UNCHANGED <<idx, validates>>
              ELSE /\ pc' = pc
                   /\ idx' = idx + 1
                   /\ validates' = (validates /\ r.validates)
    /\ bonuses' = [bonuses EXCEPT ![idx].val.sub_bonuses = [k \in DOMAIN @ |-> <<>>]]
    /\ UNCHANGED <<feed, territories, results>>
    /\ UNCHANGED builder_vars

\* EarthseaMap.validate, lines 243-244: validates &= bonus.validate() for the
\* next bonus of self.bonuses.values()
ValidateBonus ==
    /\ pc = "loop"
    /\ idx <= Len(bonuses)
    /\ LET r == validate_bonus(bonuses[idx].val)
       IN  /\ out' = out \o r.out
           /\ IF r.raised
              THEN /\ pc' = "error"
                   /\ UNCHANGED <<idx, validates>>
              ELSE /\ pc' = pc
                   /\ idx' = idx + 1
                   /\ validates' = (validates /\ r.validates)
    /\ UNCHANGED <<feed, territories, bonuses, results>>
    /\ UNCHANGED builder_vars

\* EarthseaMap.validate, line 245: return validates
Return ==
    /\ pc = "loop"
    /\ idx > Len(bonuses)
    /\ pc' = "done"
    /\ results' = Append(results, [validates |-> validates, printed |-> Len(out)])
    /\ UNCHANGED <<feed, territories, bonuses, idx, validates, out>>
    /\ UNCHANGED builder_vars

\* A second call of validate on the map that the first call has returned from
ValidateAgain ==
    /\ pc = "done"
    /\ Len(results) = 1
    /\ pc' = "parsed"
    /\ UNCHANGED <<feed, territories, bonuses, idx, validates, out, results>>
    /\ UNCHANGED builder_vars

\* validate_earthsea_map, lines 253-254
ReportResult ==
    /\ pc = "done"
    /\ pc' = "exit"
    /\ out' = IF validates
              THEN Append(out, Line("all_validate", 0, <<>>, 0, 0, 0, {}, <<>>))
              ELSE out
    /\ UNCHANGED <<feed, territories, bonuses, idx, validates, results>>
    /\ UNCHANGED builder_vars

Next ==
    ParseMap \/ ValidateOceanBonus \/ ValidateBonus \/ Return \/ ValidateAgain \/ ReportResult

Spec == Init /\ [][Next]_vars

\* The runs on the feeds that do not draw from a pool, in which a call of validate that has started runs on: each
\* statement of EarthseaMap.validate is executed once control reaches it
LiveInit ==
    /\ feed \in CompleteFeeds \cup FaultyFeeds \cup BrokenFeeds
                  \cup DuplicateFeeds \cup HugeFeeds
    /\ pc = "start"
    /\ territories = <<>>
    /\ bonuses = <<>>
    /\ idx = 0
    /\ validates = TRUE
    /\ out = <<>>
    /\ results = <<>>
    /\ BuilderIdle

LiveSpec ==
    /\ LiveInit /\ [][Next]_vars
    /\ WF_vars(ValidateOceanBonus) /\ WF_vars(ValidateBonus) /\ WF_vars(Return)

----------------------------------------------------------------------------
(* The rules R1 to R3 of the specification, read on the classified map,    *)
(* and what a state says about the run so far.                             *)

\* The positions of the base bonuses in bonuses.values()
BaseBonusPositions == {j \in DOMAIN bonuses : bonuses[j].val.cls = "BaseBonus"}

\* validate_ocean_bonus has run
OceanValidated == pc \in {"loop", "done", "exit"} \/ (pc = "error" /\ idx >= 1)

\* bonus.validate() has run on the bonus at position j, and returned
Validated(j) == OceanValidated /\ j < idx

\* EarthseaMap.validate has returned the value of validates
Returned == pc \in {"done", "exit"}

\* The sub-bonuses registered under a base bonus
SubBonusesOf(b) == UNION {Range(b.sub_bonuses[k]) : k \in DOMAIN b.sub_bonuses}

\* The diagnostics printed so far
Diagnostics == {out[j] : j \in {k \in DOMAIN out : out[k].kind # "all_validate"}}

AllTerritoryIds == {territories[j].key : j \in DOMAIN territories}

OceanIds == ocean_bonus(bonuses).territory_ids

HomeIds == {bonuses[j].val.base_territory_id : j \in BaseBonusPositions}

R1_Disjoint == HomeIds \cap OceanIds = {}

R1_Complete == HomeIds \cup OceanIds = AllTerritoryIds

R2_BaseValue == (2 :> 0) @@ (3 :> 1) @@ (4 :> 2) @@ (5 :> 2) @@ (6 :> 3)

R2_SubPartialValue == (2 :> 1) @@ (3 :> -1) @@ (4 :> 2) @@ (5 :> -4) @@ (6 :> 8)

R2_SubFullValue == (2 :> 1) @@ (3 :> -2) @@ (4 :> 0) @@ (5 :> -6) @@ (6 :> 5)

R2_SubIntendedValue(s, b) ==
    IF Cardinality(s.territory_ids) = Cardinality(b.territory_ids)
    THEN R2_SubFullValue[intended_size(s)]
    ELSE R2_SubPartialValue[intended_size(s)]

R2_SeaTerritories(b) ==
    b.territory_ids \ {b.base_territory_id}
        = DictGet(territories, b.base_territory_id).connection_ids \cap OceanIds

R2_Base(b) ==
    /\ Cardinality(b.territory_ids) \in DOMAIN R2_BaseValue
    /\ b.value = R2_BaseValue[Cardinality(b.territory_ids)]
    /\ R2_SeaTerritories(b)

R2_Sub(s, b) ==
    /\ intended_size(s) \in DOMAIN R2_SubFullValue
    /\ s.value = R2_SubIntendedValue(s, b)
    /\ s.territory_ids \subseteq b.territory_ids
    /\ Cardinality(s.territory_ids) = intended_size(s)

R3_Count(b, k) ==
    Len(b.sub_bonuses[k]) = comb(Cardinality(b.territory_ids) - 1, k - 1)

\* Two different sub-bonuses of size k claim the same territory set
R3_SameSet(b, k) ==
    \E s, t \in Range(b.sub_bonuses[k]) : s # t /\ s.territory_ids = t.territory_ids

R1 == R1_Disjoint /\ R1_Complete

R2 ==
    \A j \in BaseBonusPositions :
        /\ R2_Base(bonuses[j].val)
        /\ \A s \in SubBonusesOf(bonuses[j].val) : R2_Sub(s, bonuses[j].val)

R3 ==
    \A j \in BaseBonusPositions :
        \A k \in DOMAIN bonuses[j].val.sub_bonuses :
            R3_Count(bonuses[j].val, k) /\ ~R3_SameSet(bonuses[j].val, k)

----------------------------------------------------------------------------
(* The claims *)

\* C1: validate_ocean_bonus returns True exactly when the home territory ids
\* of the base bonuses are disjoint from the ocean bonus's territory ids and
\* the two sets together are all territory ids of the map.  (validates holds
\* what validate_ocean_bonus returned until the first bonus.validate().)
C1_OceanBonusVerdict ==
    (pc = "loop" /\ idx = 1) => (validates <=> (R1_Disjoint /\ R1_Complete))

\* C2: on every map that satisfies R1, R2 and R3, classification followed
\* by EarthseaMap.validate returns True and prints no diagnostic.
C2_ValidMapValidates ==
    (pc = "done" /\ R1 /\ R2 /\ R3) => (validates /\ out = <<>>)

\* C3: EarthseaMap.validate returns False whenever the sea territories of
\* some base bonus differ from the home territory's connections that are
\* ocean territories.
C3_SeaTerritoriesEnforced ==
    (pc = "done" /\ \E j \in BaseBonusPositions : ~R2_SeaTerritories(bonuses[j].val))
        => ~validates

\* C4: if the ocean bonus contains the home territory of a base bonus,
\* validate_ocean_bonus prints the overlap diagnostic, naming the ids that
\* are in both sets, and EarthseaMap.validate, when it returns, returns
\* False, whatever the other rules say.
C4_OverlapAlwaysFails ==
    (OceanValidated /\ HomeIds \cap OceanIds # {}) =>
        /\ \E l \in Diagnostics : l.kind = "overlap" /\ l.ids = HomeIds \cap OceanIds
        /\ ~validates

\* C4, reached: validate returned on a map with a home territory in the
\* ocean bonus on which every bonus passes its own checks
C4_Witness ==
    /\ pc = "done"
    /\ HomeIds \cap OceanIds # {}
    /\ R3
    /\ \A l \in Diagnostics : l.kind \in {"overlap", "incomplete"}

\* C5: for every base bonus b that BaseBonus.validate has checked and every
\* size k in 2..len(b), a count diagnostic for k is printed if and only if
\* the number of sub-bonuses in b.sub_bonuses[k] differs from
\* C(len(b) - 1, k - 1), and then validate's result is False.
C5_CountChecked ==
    \A j \in BaseBonusPositions :
        Validated(j) =>
            \A k \in 2..Cardinality(bonuses[j].val.territory_ids) :
                LET b == bonuses[j].val
                    reported == \E l \in Diagnostics :
                                    l.kind = "count" /\ l.by = b.bonus_id /\ l.size = k
                IN  /\ reported <=> ~R3_Count(b, k)
                    /\ reported => ~validates

\* C5, reached: validate returned after a base bonus had the right number of
\* sub-bonuses of one size and a wrong number of another
C5_Witness ==
    /\ pc = "done"
    /\ \E j \in BaseBonusPositions :
          \E k1, k2 \in DOMAIN bonuses[j].val.sub_bonuses :
              /\ R3_Count(bonuses[j].val, k1)
              /\ Len(bonuses[j].val.sub_bonuses[k1]) > 0
              /\ ~R3_Count(bonuses[j].val, k2)
              /\ \E l \in Diagnostics :
                    l.kind = "count" /\ l.by = bonuses[j].val.bonus_id /\ l.size = k2

\* C6: every count diagnostic states, as the expected count, the number
\* C(len(b) - 1, k - 1) that the check compares against, and, as the actual
\* count, len(b.sub_bonuses[k]).
C6_CountLineStatesExpected ==
    \A l \in Diagnostics :
        l.kind = "count" =>
            \E j \in BaseBonusPositions :
                LET b == bonuses[j].val
                IN  /\ b.bonus_id = l.by
                    /\ l.expected = comb(Cardinality(b.territory_ids) - 1, l.size - 1)
                    /\ l.actual = Len(b.sub_bonuses[l.size])

\* C7: for every base bonus b that BaseBonus.validate has checked and every
\* size k, a distinctness diagnostic for k is printed if and only if two
\* different sub-bonuses in b.sub_bonuses[k] have the same set of territory
\* ids, in whatever order the ids were supplied.
C7_DistinctnessBySets ==
    \A j \in BaseBonusPositions :
        Validated(j) =>
            \A k \in DOMAIN bonuses[j].val.sub_bonuses :
                (\E l \in Diagnostics :
                    l.kind = "distinct" /\ l.by = bonuses[j].val.bonus_id /\ l.size = k)
                <=> R3_SameSet(bonuses[j].val, k)

\* C8: for every sub-bonus s that SubBonus.validate has checked, a subset
\* diagnostic naming s and its base bonus is printed if and only if s has a
\* territory id that is not among its base bonus's, and then validate's
\* result is False.
C8_SubsetChecked ==
    \A j \in BaseBonusPositions :
        Validated(j) =>
            \A s \in SubBonusesOf(bonuses[j].val) :
                LET b == bonuses[j].val
                    reported == \E l \in Diagnostics :
                                    /\ l.kind = "subset" /\ l.by = s.bonus_id
                                    /\ l.name = s.name /\ l.other = b.name
                IN  /\ reported <=> ~(s.territory_ids \subseteq b.territory_ids)
                    /\ reported => ~validates

\* C8, reached: validate returned after one sub-bonus with a territory id
\* outside its base bonus and one without
C8_Witness ==
    /\ pc = "done"
    /\ \E j \in BaseBonusPositions :
          \E s, t \in SubBonusesOf(bonuses[j].val) :
              /\ ~(s.territory_ids \subseteq bonuses[j].val.territory_ids)
              /\ t.territory_ids \subseteq bonuses[j].val.territory_ids
              /\ \E l \in Diagnostics : l.kind = "subset" /\ l.by = s.bonus_id

\* C9: for every sub-bonus s that SubBonus.validate has checked, a size
\* diagnostic is printed if and only if the number of territories of s
\* differs from the size its name encodes; the diagnostic states that size
\* as expected and the number of territories as actual, and validate's
\* result is then False.
C9_SizeChecked ==
    \A j \in BaseBonusPositions :
        Validated(j) =>
            \A s \in SubBonusesOf(bonuses[j].val) :
                LET lines == {l \in Diagnostics : l.kind = "sub_size" /\ l.by = s.bonus_id}
                IN  /\ lines # {} <=> Cardinality(s.territory_ids) # intended_size(s)
                    /\ \A l \in lines :
                          /\ l.name = s.name
                          /\ l.expected = intended_size(s)
                          /\ l.actual = Cardinality(s.territory_ids)
                    /\ lines # {} => ~validates

\* C9, reached: validate returned after one sub-bonus with more territories
\* than its name encodes and one with fewer
C9_Witness ==
    /\ pc = "done"
    /\ \E j \in BaseBonusPositions :
          \E s, t \in SubBonusesOf(bonuses[j].val) :
              /\ Cardinality(s.territory_ids) > intended_size(s)
              /\ Cardinality(t.territory_ids) < intended_size(t)
              /\ \E l \in Diagnostics : l.kind = "sub_size" /\ l.by = s.bonus_id
              /\ \E l \in Diagnostics : l.kind = "sub_size" /\ l.by = t.bonus_id

\* C10: for every sub-bonus s that SubBonus.validate has checked, whose
\* name encodes a size n in 2..6, intended_value is the entry for n of the
\* full table when s has as many territories as its base bonus and of the
\* partial table otherwise; a value diagnostic is printed, stating that
\* value as expected and s.value as actual, if and only if s.value differs
\* from it, and validate's result is then False.
C10_SubValueChecked ==
    \A j \in BaseBonusPositions :
        Validated(j) =>
            \A s \in SubBonusesOf(bonuses[j].val) :
                LET b == bonuses[j].val
                    lines == {l \in Diagnostics : l.kind = "value" /\ l.by = s.bonus_id}
                IN  intended_size(s) \in 2..6 =>
                        /\ SubBonus_intended_value(s, b) = R2_SubIntendedValue(s, b)
                        /\ lines # {} <=> s.value # R2_SubIntendedValue(s, b)
                        /\ \A l \in lines :
                              /\ l.name = s.name
                              /\ l.expected = R2_SubIntendedValue(s, b)
                              /\ l.actual = s.value
                        /\ lines # {} => ~validates

\* C10, reached: validate returned after a sub-bonus with as many
\* territories as its base bonus and the value of the full table, and one
\* with fewer territories and a value that is not the partial table's
C10_Witness ==
    /\ pc = "done"
    /\ \E j \in BaseBonusPositions :
          \E s, t \in SubBonusesOf(bonuses[j].val) :
              /\ Cardinality(s.territory_ids) = Cardinality(bonuses[j].val.territory_ids)
              /\ s.value = R2_SubFullValue[intended_size(s)]
              /\ s.value # R2_SubPartialValue[intended_size(s)]
              /\ ~\E l \in Diagnostics : l.kind = "value" /\ l.by = s.bonus_id
              /\ Cardinality(t.territory_ids) < Cardinality(bonuses[j].val.territory_ids)
              /\ t.value # R2_SubPartialValue[intended_size(t)]
              /\ \E l \in Diagnostics : l.kind = "value" /\ l.by = t.bonus_id

\* C11: for every base bonus b of 2 to 6 territories that BaseBonus.validate
\* has checked, intended_value is the entry for len(b) of the table
\* {2:0, 3:1, 4:2, 5:2, 6:3}; a value diagnostic is printed, stating that
\* value as expected and b.value as actual, if and only if b.value differs
\* from it, and validate's result is then False.
C11_BaseValueChecked ==
    \A j \in BaseBonusPositions :
        (Validated(j) /\ Cardinality(bonuses[j].val.territory_ids) \in 2..6) =>
            LET b == bonuses[j].val
                lines == {l \in Diagnostics : l.kind = "value" /\ l.by = b.bonus_id}
            IN  /\ BaseBonus_intended_value(b) = R2_BaseValue[Cardinality(b.territory_ids)]
                /\ lines # {} <=> b.value # R2_BaseValue[Cardinality(b.territory_ids)]
                /\ \A l \in lines :
                      /\ l.name = b.name
                      /\ l.expected = R2_BaseValue[Cardinality(b.territory_ids)]
                      /\ l.actual = b.value
                /\ lines # {} => ~validates

\* C11, reached: validate returned after one base bonus with the value of
\* the table and one with another value
C11_Witness ==
    /\ pc = "done"
    /\ \E i, j \in BaseBonusPositions :
          /\ bonuses[i].val.value = R2_BaseValue[Cardinality(bonuses[i].val.territory_ids)]
          /\ ~\E l \in Diagnostics : l.kind = "value" /\ l.by = bonuses[i].val.bonus_id
          /\ bonuses[j].val.value # R2_BaseValue[Cardinality(bonuses[j].val.territory_ids)]
          /\ \E l \in Diagnostics : l.kind = "value" /\ l.by = bonuses[j].val.bonus_id

\* The decimal digits, in order
DigitChars == <<"0", "1", "2", "3", "4", "5", "6", "7", "8", "9">>

\* The digits d such that the last space-separated token of name starts
\* with the character of d (at most one)
LeadingDigits(name) ==
    LET token == Last(Split(name))
    IN  IF token = <<>> THEN {} ELSE {d \in 0..9 : token[1] = DigitChars[d + 1]}

\* The records of the feed's bonus list that are sub-bonus records
SubBonusRecords == {r \in Range(feed.bonuses) : Contains(r.name, "~")}

\* EarthseaMap.parse_map_from_api has returned a Map
Classified == pc \notin {"start", "parse_error"}

\* C12: for a sub-bonus name whose last token starts with the digit d, the
\* size derived from the name is d + 2: get_sub_bonus_size, the key of
\* sub_bonuses the sub-bonus is registered under, and intended_size.
C12_SizeIsDigitPlusTwo ==
    /\ pc = "start" => \A r \in SubBonusRecords : \A d \in LeadingDigits(r.name) :
          get_sub_bonus_size(r.name) = d + 2
    /\ Classified =>
          \A j \in BaseBonusPositions : \A k \in DOMAIN bonuses[j].val.sub_bonuses :
              \A s \in Range(bonuses[j].val.sub_bonuses[k]) : \A d \in LeadingDigits(s.name) :
                  k = d + 2 /\ intended_size(s) = d + 2

\* C12, amended: for a sub-bonus name whose last token starts with the digit
\* d, the size derived from the name is d + 1: get_sub_bonus_size, the key of
\* sub_bonuses the sub-bonus is registered under, intended_size, and the
\* size a size diagnostic states as expected.
C12_SizeIsDigitPlusOne ==
    /\ pc = "start" => \A r \in SubBonusRecords : \A d \in LeadingDigits(r.name) :
          get_sub_bonus_size(r.name) = d + 1
    /\ Classified =>
          \A j \in BaseBonusPositions : \A k \in DOMAIN bonuses[j].val.sub_bonuses :
              \A s \in Range(bonuses[j].val.sub_bonuses[k]) : \A d \in LeadingDigits(s.name) :
                  /\ k = d + 1
                  /\ intended_size(s) = d + 1
                  /\ \A l \in Diagnostics :
                        (l.kind = "sub_size" /\ l.by = s.bonus_id) => l.expected = d + 1

\* C12, reached: a map is classified with a sub-bonus named ' 1x' under
\* sub_bonuses[2] and a sub-bonus named ' 2x' under sub_bonuses[3]
C12_Witness ==
    /\ Classified
    /\ \E j \in BaseBonusPositions :
          /\ 3 \in DOMAIN bonuses[j].val.sub_bonuses
          /\ \E s \in Range(bonuses[j].val.sub_bonuses[2]) : LeadingDigits(s.name) = {1}
          /\ \E s \in Range(bonuses[j].val.sub_bonuses[3]) : LeadingDigits(s.name) = {2}

\* A sub-bonus name without its first character and without its last
\* space-separated token and the space before it
NameOfBase(name) == SubSeq(name, 2, Len(name) - Len(Last(Split(name))) - 1)

\* The places <<j, k>> such that the bonus with this id is a member of
\* sub_bonuses[k] of the base bonus at position j
PlacesOf(id) ==
    UNION { { <<j, k>> : k \in { n \in DOMAIN bonuses[j].val.sub_bonuses :
                                   \E s \in Range(bonuses[j].val.sub_bonuses[n]) :
                                       s.bonus_id = id } } :
            j \in BaseBonusPositions }

\* C13: once parse_map_from_api has returned, every bonus of the feed whose
\* name contains '~' is a member of exactly one set, sub_bonuses[d + 1] of
\* the BaseBonus named as the sub-bonus without its leading character and
\* its last token, d the leading digit of that token; it is that set's
\* member once, it is no entry of the map's bonuses, and its base_bonus
\* refers to that BaseBonus.
C13_RegisteredInOnePlace ==
    Classified =>
        \A r \in SubBonusRecords :
            /\ Cardinality(PlacesOf(r.id)) = 1
            /\ \A j \in DOMAIN bonuses : bonuses[j].val.bonus_id # r.id
            /\ \A p \in PlacesOf(r.id) :
                  LET b == bonuses[p[1]].val
                      members == {n \in DOMAIN b.sub_bonuses[p[2]] :
                                      b.sub_bonuses[p[2]][n].bonus_id = r.id}
                  IN  /\ b.name = NameOfBase(r.name)
                      /\ \A d \in LeadingDigits(r.name) : p[2] = d + 1
                      /\ Cardinality(members) = 1
                      /\ \A n \in members :
                            /\ b.sub_bonuses[p[2]][n].cls = "SubBonus"
                            /\ b.sub_bonuses[p[2]][n].base_bonus = b.name
                            /\ b.sub_bonuses[p[2]][n].name = r.name

\* C13, reached: a map is classified from a feed with sub-bonuses of two
\* base bonuses, two of them of one base bonus and of different sizes
C13_Witness ==
    /\ Classified
    /\ \E r1, r2, r3 \in SubBonusRecords :
          /\ NameOfBase(r1.name) # NameOfBase(r2.name)
          /\ NameOfBase(r2.name) = NameOfBase(r3.name)
          /\ LeadingDigits(r2.name) # LeadingDigits(r3.name)

\* How often the bonus with this id occurs when the map is flattened: as an
\* entry of the map's bonuses (the ocean bonus and the base bonuses) or as a
\* member of a base bonus's sub_bonuses
TimesCollected(id) ==
    Cardinality({j \in DOMAIN bonuses : bonuses[j].val.bonus_id = id})
      + Cardinality(UNION { UNION { { <<j, k, n>> :
                                        n \in { i \in DOMAIN bonuses[j].val.sub_bonuses[k] :
                                                  bonuses[j].val.sub_bonuses[k][i].bonus_id = id } } :
                                    k \in DOMAIN bonuses[j].val.sub_bonuses } :
                            j \in BaseBonusPositions })

\* The ids of the bonuses the flattened map holds
CollectedIds ==
    {bonuses[j].val.bonus_id : j \in DOMAIN bonuses}
        \cup UNION {{s.bonus_id : s \in SubBonusesOf(bonuses[j].val)} : j \in BaseBonusPositions}

\* C14: once parse_map_from_api has returned, the ocean bonus, the base
\* bonuses and the sub-bonuses nested in them are the bonuses of the feed,
\* each id once: none is dropped and none occurs twice, also when two
\* records of the feed share a name.
C14_RoundTrip ==
    Classified =>
        /\ CollectedIds = {r.id : r \in Range(feed.bonuses)}
        /\ \A r \in Range(feed.bonuses) : TimesCollected(r.id) = 1

\* The records of the feed's bonus list that are base bonus records
BaseBonusRecords ==
    {r \in Range(feed.bonuses) : ~Contains(r.name, "~") /\ r.id # OCEAN_BONUS_ID}

\* The feed has an ocean bonus, every base bonus is named as a territory,
\* every sub-bonus name parses and names a base bonus of the feed, and the
\* sizes that the names encode and the numbers of territories of the base
\* bonuses and sub-bonuses are all in 2..6
StructurallySound ==
    /\ \E r \in Range(feed.bonuses) : r.id = OCEAN_BONUS_ID
    /\ \A r \in BaseBonusRecords :
          /\ \E t \in Range(feed.territories) : t.name = r.name
          /\ Cardinality(Range(r.territoryIDs)) \in 2..6
    /\ \A r \in SubBonusRecords :
          /\ LeadingDigits(r.name) # {}
          /\ \A d \in LeadingDigits(r.name) : d + 1 \in 2..6
          /\ \E b \in BaseBonusRecords : b.name = NameOfBase(r.name)
          /\ Cardinality(Range(r.territoryIDs)) \in 2..6

\* C15: on a structurally sound feed neither classification nor validation
\* raises, whatever rules the map violates.
C15_NeverRaisesOnSoundFeed ==
    StructurallySound => pc \notin {"parse_error", "error"}

\* The positions in out of what the call of validate that is running, or
\* has just returned, has printed
LinesOfCall ==
    LET before == IF pc = "done" THEN Len(results) - 1 ELSE Len(results)
    IN  ((IF before = 0 THEN 0 ELSE results[before].printed) + 1)..Len(out)

\* The checks that fail on the classified map, other than the completeness
\* check of validate_ocean_bonus, each as <<kind, bonus id, size>>: the
\* overlap check, each base bonus's value check and, for each size, its
\* count check and its check of line 145, and each sub-bonus's size, value
\* and subset check
FailedChecks ==
    (IF HomeIds \cap OceanIds # {} THEN {<<"overlap", 0, 0>>} ELSE {})
    \cup UNION { LET b == bonuses[j].val IN
          (IF b.value # R2_BaseValue[Cardinality(b.territory_ids)]
           THEN {<<"value", b.bonus_id, 0>>} ELSE {})
          \cup {<<"count", b.bonus_id, k>> : k \in {n \in DOMAIN b.sub_bonuses : ~R3_Count(b, n)}}
          \cup {<<"distinct", b.bonus_id, k>> :
                  k \in {n \in DOMAIN b.sub_bonuses :
                           \E x, y \in DOMAIN b.sub_bonuses[n] :
                               /\ x # y
                               /\ b.sub_bonuses[n][x].ids_order = b.sub_bonuses[n][y].ids_order}}
          \cup {<<"sub_size", s.bonus_id, 0>> :
                  s \in {t \in SubBonusesOf(b) : Cardinality(t.territory_ids) # intended_size(t)}}
          \cup {<<"value", s.bonus_id, 0>> :
                  s \in {t \in SubBonusesOf(b) : t.value # R2_SubIntendedValue(t, b)}}
          \cup {<<"subset", s.bonus_id, 0>> :
                  s \in {t \in SubBonusesOf(b) : ~(t.territory_ids \subseteq b.territory_ids)}}
        : j \in BaseBonusPositions }

C17_ValidateTwice ==
    /\ [](Len(results) = 2 =>
            /\ results[2].validates = results[1].validates
            /\ SubSeq(out, results[1].printed + 1, results[2].printed)
                   = SubSeq(out, 1, results[1].printed))
    /\ [][pc # "start" => UNCHANGED <<territories, bonuses>>]_vars

\* C17, reached: the second call has returned False, after each call printed
\* more than two lines, on a map with a base bonus that has sub-bonuses
C17_Witness ==
    /\ pc = "done"
    /\ Len(results) = 2
    /\ ~results[2].validates
    /\ results[1].printed > 2
    /\ results[2].printed = 2 * results[1].printed
    /\ \E j \in BaseBonusPositions : Cardinality(SubBonusesOf(bonuses[j].val)) > 1

\* The base bonus records of the feed that are named as no territory
HomelessRecords ==
    {r \in BaseBonusRecords : ~\E t \in Range(feed.territories) : t.name = r.name}

\* C18: once parse_map_from_api has returned, the home territory of every
\* BaseBonus is a territory of the feed with the bonus's name; and when a
\* bonus other than the ocean bonus, without '~' in its name, is named as no
\* territory, parse_map_from_api raises and returns no Map.
C18_HomeTerritoryByName ==
    /\ Classified =>
          \A j \in BaseBonusPositions :
              \E t \in Range(feed.territories) :
                  /\ t.id = bonuses[j].val.base_territory_id
                  /\ t.name = bonuses[j].val.name
    /\ HomelessRecords # {} => (pc \in {"start", "parse_error"} /\ bonuses = <<>>)

\* C18, reached: classification has raised on a feed with an ocean bonus,
\* without sub-bonuses, one of whose base bonuses is named as a territory
\* and one as none
C18_Witness ==
    /\ pc = "parse_error"
    /\ \E r \in Range(feed.bonuses) : r.id = OCEAN_BONUS_ID
    /\ SubBonusRecords = {}
    /\ HomelessRecords # {}
    /\ BaseBonusRecords \ HomelessRecords # {}

\* The sub-bonus records of the feed whose base bonus name is not the name
\* of a base bonus record
OrphanRecords ==
    {r \in SubBonusRecords : \A b \in BaseBonusRecords : b.name # NameOfBase(r.name)}

\* C19: when a bonus with '~' in its name has a base bonus name that is not
\* the name of a BaseBonus of the feed, also when it is the ocean bonus's
\* name, parse_map_from_api raises and returns no Map: no state holds a
\* classified map of such a feed, with the sub-bonus attached elsewhere or
\* left out.
C19_UnresolvedSubBonusRaises ==
    OrphanRecords # {} => (pc \in {"start", "parse_error"} /\ bonuses = <<>>)

\* C19, reached: classification has raised on a feed whose base bonuses are
\* all named as territories and whose only sub-bonus is named after the
\* ocean bonus
C19_Witness ==
    /\ pc = "parse_error"
    /\ HomelessRecords = {}
    /\ BaseBonusRecords # {}
    /\ Cardinality(SubBonusRecords) = 1
    /\ \E r \in OrphanRecords : \E o \in Range(feed.bonuses) :
          o.id = OCEAN_BONUS_ID /\ o.name = NameOfBase(r.name)

\* The map has a BaseBonus of more than 6 territories, or the feed a
\* sub-bonus whose name encodes a size (its leading digit plus one, as
\* intended_size reads it) outside 2..6
OutOfDomain ==
    \/ \E j \in BaseBonusPositions : Cardinality(bonuses[j].val.territory_ids) > 6
    \/ \E r \in SubBonusRecords : \E d \in LeadingDigits(r.name) : d + 1 \notin 2..6

\* C20: a map with a BaseBonus of more than 6 territories, or with a
\* sub-bonus whose name encodes a size outside 2..6, is never reported as
\* valid: no call of validate returns a boolean on it and 'All bonuses
\* validate.' is not printed; classification or validation raises.
C20_FailsClosed ==
    OutOfDomain =>
        /\ pc \in {"start", "parsed", "loop", "parse_error", "error"}
        /\ results = <<>>
        /\ \A n \in DOMAIN out : out[n].kind # "all_validate"

\* C20, reached: validate has raised, after it validated the bonuses before
\* it, on a base bonus of 7 territories that holds a sub-bonus of size 7
C20_Witness ==
    /\ pc = "error"
    /\ idx > 1
    /\ \E j \in BaseBonusPositions :
          /\ Cardinality(bonuses[j].val.territory_ids) = 7
          /\ Len(bonuses[j].val.sub_bonuses[7]) = 1

\* C21: every call of EarthseaMap.validate on a classified map returns or
\* raises; until then each step of its loop moves on to the next bonus of
\* the map, and the loop never goes past the last one by more than one.
C21_ValidateTerminates ==
    /\ (pc = "parsed") ~> (pc \in {"done", "error"})
    /\ [][(pc = "loop" /\ pc' = "loop") => idx' = idx + 1]_vars
    /\ [](pc = "loop" => idx \in 1..(Len(bonuses) + 1))

\* C21, reached: validate has returned from a map with two base bonuses
\* that both have sub-bonuses
C21_Witness ==
    /\ pc = "done"
    /\ \E i, j \in BaseBonusPositions :
          /\ i # j
          /\ SubBonusesOf(bonuses[i].val) # {}
          /\ SubBonusesOf(bonuses[j].val) # {}

\* C22: when a call of EarthseaMap.validate returns, it returns False if and
\* only if it has printed at least one diagnostic.
C22_FalseIffDiagnostic ==
    pc = "done" => (~validates <=> LinesOfCall # {})

\* C22, reached: validate returned False after printing one line, the value
\* diagnostic of a sub-bonus
C22_Witness ==
    /\ pc = "done"
    /\ ~validates
    /\ Cardinality(LinesOfCall) = 1
    /\ \E j \in BaseBonusPositions : \E s \in SubBonusesOf(bonuses[j].val) :
          \A n \in LinesOfCall : out[n].kind = "value" /\ out[n].by = s.bonus_id

\* C23: once validate_ocean_bonus has run, the overlap diagnostic is printed
\* exactly when a home territory id is an ocean territory id, and names the
\* ids that are both; the completeness diagnostic is printed exactly when a
\* territory id is neither, and names the territory ids that are neither.
C23_OceanDiagnostics ==
    (pc = "loop" /\ idx = 1) =>
        LET both == HomeIds \cap OceanIds
            neither == AllTerritoryIds \ (HomeIds \cup OceanIds)
            overlaps == {n \in LinesOfCall : out[n].kind = "overlap"}
            incompletes == {n \in LinesOfCall : out[n].kind = "incomplete"}
        IN  /\ overlaps # {} <=> both # {}
            /\ \A n \in overlaps : out[n].ids = both
            /\ incompletes # {} <=> neither # {}
            /\ \A n \in incompletes : out[n].ids = neither

\* C24: among the lines a call of EarthseaMap.validate prints, the overlap
\* and completeness diagnostics come before every diagnostic of a bonus, and
\* the value diagnostic of a base bonus comes before the count and
\* distinctness diagnostics of that base bonus.
C24_DiagnosticOrder ==
    \A m, n \in LinesOfCall :
        /\ ( /\ out[m].kind \in {"overlap", "incomplete"}
             /\ out[n].kind \in {"value", "count", "distinct", "sub_size", "subset"} )
              => m < n
        /\ ( /\ out[m].kind = "value"
             /\ out[n].kind \in {"count", "distinct"}
             /\ out[m].by = out[n].by )
              => m < n

\* C24, reached: validate returned after printing the overlap diagnostic and,
\* for one base bonus, its value, count and distinctness diagnostics
C24_Witness ==
    /\ pc = "done"
    /\ \E n \in LinesOfCall : out[n].kind = "overlap"
    /\ \E j \in BaseBonusPositions :
          \A kind \in {"value", "count", "distinct"} :
              \E n \in LinesOfCall : out[n].kind = kind /\ out[n].by = bonuses[j].val.bonus_id

\* The feeds that are this feed with two of its bonus records, or two of its
\* territory records, in each other's place
Exchanges(f) ==
    {[f EXCEPT !.bonuses = [@ EXCEPT ![p[1]] = f.bonuses[p[2]], ![p[2]] = f.bonuses[p[1]]]] :
        p \in (DOMAIN f.bonuses) \X (DOMAIN f.bonuses)}
    \cup
    {[f EXCEPT !.territories =
                  [@ EXCEPT ![p[1]] = f.territories[p[2]], ![p[2]] = f.territories[p[1]]]] :
        p \in (DOMAIN f.territories) \X (DOMAIN f.territories)}

\* Two sequences of lines hold the same lines, each as often
SameLines(a, b) ==
    /\ Len(a) = Len(b)
    /\ \A l \in Range(a) :
          Cardinality({n \in DOMAIN a : a[n] = l}) = Cardinality({n \in DOMAIN b : b[n] = l})

\* C25: the outcome of parse_map_from_api followed by validate is the same
\* for a feed and for the feed with its bonus records or its territory
\* records in another order: both raise, or both return the same boolean
\* after printing the same diagnostics, each as often.
C25_OrderIndependent ==
    (pc \in {"parse_error", "error", "done"} /\ Len(results) <= 1) =>
        \A g \in Exchanges(feed) :
            IF pc = "done"
            THEN /\ ~parse_and_validate(g).raised
                 /\ parse_and_validate(g).validates = validates
                 /\ SameLines(parse_and_validate(g).out, out)
            ELSE parse_and_validate(g).raised

----------------------------------------------------------------------------
(* warzone_map_builder.py, the Inkscape extension that draws a map.        *)
(*                                                                         *)
(* The document self.svg is a store of elements: element 1 is the <svg>    *)
(* root, an element is named by its place in the store (which also stands  *)
(* for the id that get_id() generates for an element without one), and an  *)
(* element that has been removed stays in the store without a parent.      *)
(* The id attribute of a path is a record of its identifier prefix, the    *)
(* number after 'Territory_' and the characters after 'BonusLink_'.        *)
(* Labels, bonus names and bonus values are sequences of characters.       *)
(* Styles (fill, stroke, font) are left out except for the fill of a bonus *)
(* link, which _clean_up_bonus_inputs reads back; it is kept in text.      *)
(***************************************************************************)

\* How often the extension runs on one document
MaxRuns == 2

Element(tag, layer, id, label, href, text, children) ==
    [tag |-> tag, layer |-> layer, id |-> id, label |-> label, href |-> href,
     text |-> text, children |-> children, start |-> 0, end |-> 0]

NoId == [prefix |-> "", num |-> 0, name |-> <<>>]

PathId(n) == [prefix |-> "path", num |-> n, name |-> <<>>]

\* f"{Warzone.TERRITORY_IDENTIFIER}{max_id}"
TerritoryId(n) == [prefix |-> "Territory_", num |-> n, name |-> <<>>]

\* The id as text, for the label that Group.new is given
IdLabel(id) ==
    IF id.prefix = "BonusLink_" THEN <<id.prefix>> \o id.name
    ELSE <<id.prefix, ToString(id.num)>>

\* e.getparent(): 0 stands for None
getparent(doc, e) ==
    IF \E p \in DOMAIN doc : e \in Range(doc[p].children)
    THEN CHOOSE p \in DOMAIN doc : e \in Range(doc[p].children)
    ELSE 0

\* parent.remove(e)
remove(doc, e) ==
    IF getparent(doc, e) = 0 THEN doc
    ELSE [doc EXCEPT ![getparent(doc, e)].children = SelectSeq(@, LAMBDA c : c # e)]

\* parent.add(e): lxml's append moves an element that has a parent
add(doc, parent, e) ==
    [remove(doc, e) EXCEPT ![parent].children = Append(@, e)]

RECURSIVE add_all(_, _, _)
add_all(doc, parent, es) ==
    IF es = <<>> THEN doc ELSE add_all(add(doc, parent, Head(es)), parent, Tail(es))

\* The elements below e in document order: what ".//" walks
RECURSIVE walk(_, _)
walk(doc, todo) ==
    IF todo = <<>> THEN <<>>
    ELSE <<Head(todo)>> \o walk(doc, doc[Head(todo)].children \o Tail(todo))

descendants(doc, e) == walk(doc, doc[e].children)

\* Whether the element is in the document (getElementById, Use.href find
\* only elements of the tree)
attached(doc, e) == e = 1 \/ e \in Range(descendants(doc, 1))

\* find(): the first match or None
first(matches) == IF matches = <<>> THEN 0 ELSE matches[1]

\* Use.href: the element the clone links, None when it is no longer there
href(doc, clone) ==
    IF doc[clone].href # 0 /\ attached(doc, doc[clone].href)
    THEN doc[clone].href ELSE 0

Max(S) == CHOOSE x \in S : \A y \in S : y <= x

\* The digits of a number text, without its sign
digits(text) == IF text # <<>> /\ Head(text) = "-" THEN Tail(text) ELSE text

\* int(text) raises ValueError
int_raises(text) ==
    digits(text) = <<>> \/ \E k \in DOMAIN digits(text) : ~IsDigit(digits(text)[k])

RECURSIVE natural(_)
natural(ds) ==
    IF ds = <<>> THEN 0 ELSE 10 * natural(AllButLast(ds)) + DigitVal(Last(ds))

\* int(text)
int(text) ==
    IF text # <<>> /\ Head(text) = "-" THEN 0 - natural(Tail(text)) ELSE natural(text)

\* str(n)
RECURSIVE str(_)
str(n) ==
    IF n < 0 THEN <<"-">> \o str(0 - n)
    ELSE (IF n < 10 THEN <<>> ELSE str(n \div 10)) \o <<ToString(n % 10)>>

\* WZMapBuilder._get_metadata_layer without create: the first group child
\* of parent that carries the label
WZMapBuilder_get_metadata_layer(doc, metadata_type, parent) ==
    first(SelectSeq(doc[parent].children,
                    LAMBDA c : doc[c].tag = "g" /\ doc[c].label = metadata_type))

\* WZMapBuilder._get_metadata_layer(metadata_type, create=True, parent)
create_metadata_layer(doc, metadata_type, parent) ==
    IF WZMapBuilder_get_metadata_layer(doc, metadata_type, parent) # 0 THEN doc
    ELSE add(Append(doc, Element("g", TRUE, NoId, metadata_type, 0, "", <<>>)),
             parent, Len(doc) + 1)

\* class MapLayers
MapLayers ==
    [BONUS_LINKS |-> <<"WZ:BonusLinks">>, TERRITORIES |-> <<"WZ:Territories">>,
     BONUSES |-> <<"WZ:Bonuses">>, CONNECTIONS |-> <<"WZ:Connections">>,
     WRAP_NORMAL |-> <<"Normal">>, WRAP_HORIZONTAL |-> <<"WrapHorizontally">>,
     WRAP_VERTICAL |-> <<"WrapVertically">>]

WZMapBuilder_setup_map_layers(doc) ==
    LET d1 == create_metadata_layer(doc, MapLayers.BONUSES, 1)
        d2 == create_metadata_layer(d1, MapLayers.TERRITORIES, 1)
        d3 == create_metadata_layer(d2, MapLayers.CONNECTIONS, 1)
        connections_layer == WZMapBuilder_get_metadata_layer(d3, MapLayers.CONNECTIONS, 1)
        d4 == create_metadata_layer(d3, MapLayers.WRAP_VERTICAL, connections_layer)
        d5 == create_metadata_layer(d4, MapLayers.WRAP_HORIZONTAL, connections_layer)
        d6 == create_metadata_layer(d5, MapLayers.WRAP_NORMAL, connections_layer)
    IN  create_metadata_layer(d6, MapLayers.BONUS_LINKS, 1)

\* is_territory(element)
is_territory(doc, e) == doc[e].id.prefix = "Territory_"

\* get_territories(root, is_recursive): the territory paths below root, in
\* document order
get_territories(doc, root, is_recursive) ==
    SelectSeq(IF is_recursive THEN descendants(doc, root) ELSE doc[root].children,
              LAMBDA e : doc[e].tag = "path" /\ is_territory(doc, e))

\* group.xpath("./svg:g[svg:rect and svg:text]"): the center-point groups
center_point_groups(doc, group) ==
    SelectSeq(doc[group].children,
              LAMBDA c : /\ doc[c].tag = "g"
                         /\ \E r \in Range(doc[c].children) : doc[r].tag = "rect"
                         /\ \E t \in Range(doc[c].children) : doc[t].tag = "text")

titles(doc, group) == SelectSeq(doc[group].children, LAMBDA c : doc[c].tag = "title")

\* The group that line 1078 would test had its "or" been inside the "and":
\* a group that is no layer, with one territory path and one center-point
\* group, and nothing else but one title
is_territory_group_parenthesised(doc, group) ==
    /\ doc[group].tag = "g"
    /\ ~doc[group].layer
    /\ Len(doc[group].children) \in {2, 3}
    /\ Len(get_territories(doc, group, FALSE)) = 1
    /\ Len(center_point_groups(doc, group)) = 1
    /\ (Len(doc[group].children) = 2 \/ Len(titles(doc, group)) = 1)

\* is_territory_group(group), lines 1073-1079.  In Python "and" binds
\* tighter than "or": line 1078 is (valid and len == 2) or (one title)
is_territory_group(doc, group) ==
    LET valid1 == doc[group].tag = "g"
        valid2 == valid1 /\ ~doc[group].layer
        valid3 == valid2 /\ Len(doc[group].children) \in {2, 3}
        valid4 == valid3 /\ Len(get_territories(doc, group, FALSE)) = 1
        valid5 == valid4 /\ Len(center_point_groups(doc, group)) = 1
    IN  (valid5 /\ Len(doc[group].children) = 2) \/ (Len(titles(doc, group)) = 1)

\* get_territory_id(territory) raises: a group that is no territory group
\* (ValueError), or one that holds no territory path (IndexError)
get_territory_id_raises(doc, territory) ==
    CASE doc[territory].tag = "path" -> ~is_territory(doc, territory)
      [] doc[territory].tag = "g" ->
            \/ ~is_territory_group(doc, territory)
            \/ get_territories(doc, territory, FALSE) = <<>>
      [] OTHER -> TRUE

\* get_territory_id(territory) for a territory path or a territory group
get_territory_id(doc, territory) ==
    IF doc[territory].tag = "path" THEN doc[territory].id.num
    ELSE doc[get_territories(doc, territory, FALSE)[1]].id.num

\* WZMapBuilder._get_max_territory_id(territories)
WZMapBuilder_get_max_territory_id(doc, paths) ==
    Max({0} \cup {get_territory_id(doc, t) : t \in Range(paths)})

\* create_center_point_group(territory): the group, its rectangle and text
create_center_point_group(doc, territory) ==
    [svg |-> doc \o <<Element("rect", FALSE, NoId, <<>>, 0, "", <<>>),
                      Element("text", FALSE, NoId, <<>>, 0, "88", <<>>),
                      Element("g", FALSE, NoId, IdLabel(doc[territory].id), 0, "",
                              <<Len(doc) + 1, Len(doc) + 2>>)>>,
     node |-> Len(doc) + 3]

\* create_territory(territory, max_id, territory_layer): the document and
\* the territory group
create_territory(doc, territory, max_id, territory_layer) ==
    LET d1 == IF ~is_territory(doc, territory)
              THEN [doc EXCEPT ![territory].id = TerritoryId(max_id + 1)]
              ELSE doc
        parent == getparent(d1, territory)
    IN  IF ~is_territory_group(d1, parent)
        THEN LET c == create_center_point_group(d1, territory)
                 territory_group == Len(c.svg) + 1
                 d2 == Append(remove(c.svg, territory),
                              Element("g", FALSE, NoId, IdLabel(d1[territory].id), 0, "",
                                      <<territory, c.node>>))
                 destination == IF territory_layer # 0 THEN territory_layer ELSE parent
             IN  [svg |-> add(d2, destination, territory_group),
                  node |-> territory_group, raised |-> ""]
        ELSE LET territory_group == parent
                 destination == IF territory_layer # 0 THEN territory_layer
                                ELSE getparent(d1, territory_group)
             IN  IF destination = 0
                 THEN [svg |-> d1, node |-> territory_group, raised |-> "TypeError"]
                 ELSE [svg |-> IF territory_group \in Range(d1[destination].children)
                               THEN d1 ELSE add(d1, destination, territory_group),
                       node |-> territory_group, raised |-> ""]

\* self.svg.selection.filter(inkex.PathElement)
selected_paths(doc, sel) == SelectSeq(sel, LAMBDA e : doc[e].tag = "path")

\* The territory layer that the territory-layer checkbox asks for
territory_layer_option(doc, opts) ==
    IF opts.territory_layer
    THEN WZMapBuilder_get_metadata_layer(doc, MapLayers.TERRITORIES, 1) ELSE 0

\* WZMapBuilder._create_territories, lines 198-200: the loop over the set
\* territories_to_process, which iterates in the given order
RECURSIVE create_territories_loop(_, _, _, _)
create_territories_loop(doc, order, max_id, territory_layer) ==
    IF order = <<>> THEN [svg |-> doc, raised |-> ""]
    ELSE LET c == create_territory(doc, Head(order), max_id, territory_layer)
         IN  IF c.raised # "" THEN [svg |-> c.svg, raised |-> c.raised]
             ELSE IF get_territory_id_raises(c.svg, c.node)
             THEN [svg |-> c.svg, raised |-> "ValueError"]
             ELSE create_territories_loop(
                      c.svg, Tail(order),
                      Max({max_id, get_territory_id(c.svg, c.node)}), territory_layer)

\* territories_to_process of WZMapBuilder._create_territories
territories_to_process(doc, sel) ==
    Range(get_territories(doc, 1, TRUE)) \cup Range(selected_paths(doc, sel))

\* WZMapBuilder._create_territories with its set iterating in the order given
WZMapBuilder_create_territories(doc, opts, sel, order) ==
    IF order = <<>> THEN [svg |-> doc, raised |-> "AbortExtension"]
    ELSE create_territories_loop(
             doc, order,
             WZMapBuilder_get_max_territory_id(doc, get_territories(doc, 1, TRUE)),
             territory_layer_option(doc, opts))

\* WZMapBuilder._set_territory_name
WZMapBuilder_set_territory_name(doc, opts, sel) ==
    IF Len(sel) # 1 THEN [svg |-> doc, raised |-> "AbortExtension"]
    ELSE LET element == sel[1]
         IN  IF doc[element].tag # "path" /\ ~is_territory_group(doc, element)
             THEN [svg |-> doc, raised |-> "AbortExtension"]
             ELSE IF doc[element].tag # "path"
                     /\ get_territories(doc, element, FALSE) = <<>>
             THEN [svg |-> doc, raised |-> "IndexError"]
             ELSE LET territory == IF doc[element].tag = "path" THEN element
                                   ELSE get_territories(doc, element, FALSE)[1]
                      c == create_territory(
                               doc, territory,
                               WZMapBuilder_get_max_territory_id(
                                   doc, get_territories(doc, 1, TRUE)),
                               territory_layer_option(doc, opts))
                  IN  IF c.raised # "" THEN [svg |-> c.svg, raised |-> c.raised]
                      ELSE [svg |-> add(Append(c.svg,
                                               Element("title", FALSE, NoId, <<>>, 0,
                                                       opts.territory_name, <<>>)),
                                        c.node, Len(c.svg) + 1),
                            raised |-> ""]

\* add_arguments, lines 113-152: the defaults of the options that the
\* handlers read, and the three values that _clean_up_bonus_inputs adds
DefaultOptions ==
    [tab |-> "about",
     territory_tab |-> "create", territory_name |-> "Unnamed", territory_layer |-> TRUE,
     bonus_name |-> <<>>, bonus_tab |-> "create-update",
     bonus_properties_tab |-> "create", bonus_name_update |-> <<>>,
     bonus_value |-> <<>>, bonus_color |-> "", bonus_link_visible |-> TRUE,
     bonus_territories_add_replace |-> "add",
     connection_type |-> <<"normal">>,
     distribution_tab |-> "crud", distribution_crud_tab |-> "create",
     bonus_link_path |-> 0, bonus_layer |-> 0, territories |-> <<>>]

\* The characters that the pattern [^a-zA-Z0-9]+ leaves in place
Alphanumeric ==
    {"0", "1", "2", "3", "4", "5", "6", "7", "8", "9",
     "A", "B", "C", "D", "E", "F", "G", "H", "I", "J", "K", "L", "M",
     "N", "O", "P", "Q", "R", "S", "T", "U", "V", "W", "X", "Y", "Z",
     "a", "b", "c", "d", "e", "f", "g", "h", "i", "j", "k", "l", "m",
     "n", "o", "p", "q", "r", "s", "t", "u", "v", "w", "x", "y", "z"}

\* get_bonus_link_id(bonus_name)
get_bonus_link_id(bonus_name) ==
    [prefix |-> "BonusLink_", num |-> 0,
     name |-> SelectSeq(bonus_name, LAMBDA c : c \in Alphanumeric)]

\* is_bonus_link_group(group); group may be None
is_bonus_link_group(doc, group) ==
    /\ group # 0
    /\ doc[group].tag = "g"
    /\ ~doc[group].layer
    /\ Len(doc[group].children) = 2
    /\ \E c \in Range(doc[group].children) :
           doc[c].tag = "path" /\ doc[c].id.prefix = "BonusLink_"
    /\ \E c \in Range(doc[group].children) : doc[c].tag = "text"

\* label.split(': ')
RECURSIVE split_colon_space(_, _, _)
split_colon_space(s, cur, acc) ==
    IF s = <<>> THEN Append(acc, cur)
    ELSE IF Len(s) >= 2 /\ s[1] = ":" /\ s[2] = " "
    THEN split_colon_space(SubSeq(s, 3, Len(s)), <<>>, Append(acc, cur))
    ELSE split_colon_space(Tail(s), Append(cur, Head(s)), acc)

\* get_bonus_layer_name_and_value(bonus_layer) raises ValueError: the label
\* does not split in two, or its second part is no integer
get_bonus_layer_name_and_value_raises(doc, bonus_layer) ==
    LET parts == split_colon_space(doc[bonus_layer].label, <<>>, <<>>)
    IN  Len(parts) # 2 \/ int_raises(parts[2])

\* get_bonus_layer_name_and_value(bonus_layer)
get_bonus_layer_name_and_value(doc, bonus_layer) ==
    LET parts == split_colon_space(doc[bonus_layer].label, <<>>, <<>>)
    IN  [name |-> parts[1], value |-> int(parts[2])]

\* f'{bonus_name}: {bonus_value}'
bonus_layer_label(bonus_name, bonus_value) == bonus_name \o <<":", " ">> \o bonus_value

RECURSIVE below_all(_, _)
below_all(doc, tops) ==
    IF tops = <<>> THEN <<>>
    ELSE descendants(doc, Head(tops)) \o below_all(doc, Tail(tops))

\* WZMapBuilder._get_metadata_type_layers(metadata_type): every labelled
\* group below the top-level layer of that label
WZMapBuilder_get_metadata_type_layers(doc, metadata_type) ==
    SelectSeq(below_all(doc, SelectSeq(doc[1].children,
                                       LAMBDA c : /\ doc[c].tag = "g"
                                                  /\ doc[c].label = metadata_type)),
              LAMBDA e : doc[e].tag = "g" /\ doc[e].label # <<>>)

\* WZMapBuilder._get_bonus_link_path_from_name(bonus_name)
WZMapBuilder_get_bonus_link_path_from_name(doc, bonus_name) ==
    first(SelectSeq(descendants(doc, 1),
                    LAMBDA e : /\ doc[e].tag = "path"
                               /\ doc[e].id = get_bonus_link_id(bonus_name)))

\* WZMapBuilder._get_bonus_link_path_from_selection()
WZMapBuilder_get_bonus_link_path_from_selection(doc, sel) ==
    LET groups == SelectSeq(sel, LAMBDA g : is_bonus_link_group(doc, g))
        selected_bonus_links ==
            [k \in DOMAIN groups |->
                first(SelectSeq(doc[groups[k]].children, LAMBDA c : doc[c].tag = "path"))]
            \o SelectSeq(sel, LAMBDA p : /\ doc[p].tag = "path"
                                         /\ doc[p].id.prefix = "BonusLink_")
    IN  IF Len(selected_bonus_links) = 1
        THEN [raised |-> "", link |-> selected_bonus_links[1]]
        ELSE IF selected_bonus_links = <<>> THEN [raised |-> "", link |-> 0]
        ELSE [raised |-> "AbortExtension", link |-> 0]

\* The layers compared by their names as they are
WZMapBuilder_get_bonus_layers_with_same_name(doc, bonus_name) ==
    LET layers == WZMapBuilder_get_metadata_type_layers(doc, MapLayers.BONUSES)
    IN  IF \E k \in DOMAIN layers : get_bonus_layer_name_and_value_raises(doc, layers[k])
        THEN [raised |-> "ValueError", layers |-> <<>>]
        ELSE [raised |-> "",
              layers |-> SelectSeq(layers,
                            LAMBDA l : bonus_name = get_bonus_layer_name_and_value(doc, l).name)]

\* WZMapBuilder._get_bonus_layers_with_name(bonus_name)
WZMapBuilder_get_bonus_layers_with_name(doc, bonus_name) ==
    LET layers == WZMapBuilder_get_metadata_type_layers(doc, MapLayers.BONUSES)
    IN  IF \E k \in DOMAIN layers : get_bonus_layer_name_and_value_raises(doc, layers[k])
        THEN [raised |-> "ValueError", layers |-> <<>>]
        ELSE [raised |-> "",
              layers |-> SelectSeq(layers,
                            LAMBDA l : get_bonus_link_id(bonus_name)
                                       = get_bonus_link_id(
                                             get_bonus_layer_name_and_value(doc, l).name))]

\* inkex.Color(color) raises ColorError
Color_raises(color) == color \notin {"#000000", "#FFFFFF", "#FFFF00", "#00EE33"}

\* class BonusOperations: BonusOperations(value) raises ValueError
BonusOperations_raises(value) ==
    value \notin {"create", "update", "delete", "add", "replace"}

\* WZMapBuilder._clean_up_bonus_inputs(operation): the exception it raises
\* ("" for none) and self.options when it ends
WZMapBuilder_clean_up_bonus_inputs(doc, opts, sel, operation) ==
    LET abort == [raised |-> "AbortExtension", options |-> opts]
        is_create_update == operation \in {"create", "update"}
        is_update_territories == operation \in {"add", "replace"}
        from_selection == WZMapBuilder_get_bonus_link_path_from_selection(doc, sel)
        bonus_name == IF opts.bonus_name # <<>> THEN opts.bonus_name
                      ELSE doc[from_selection.link].id.name
        bonus_name_update == IF operation = "update" THEN opts.bonus_name_update
                             ELSE bonus_name
        bonus_link == IF from_selection.link # 0 THEN from_selection.link
                      ELSE WZMapBuilder_get_bonus_link_path_from_name(doc, bonus_name)
        territory_groups == SelectSeq(sel, LAMBDA g : is_territory_group(doc, g))
        with_territories == IF is_update_territories
                            THEN [opts EXCEPT !.territories = territory_groups]
                            ELSE opts
        target_bonus_layers == WZMapBuilder_get_bonus_layers_with_name(doc, bonus_name_update)
        existing_bonus_layers ==
            IF bonus_name = bonus_name_update THEN target_bonus_layers
            ELSE WZMapBuilder_get_bonus_layers_with_name(doc, bonus_name)
        bonus_layer == IF operation = "create" THEN 0 ELSE existing_bonus_layers.layers[1]
        bonus_color ==
            IF opts.bonus_color # "" \/ ~is_create_update THEN opts.bonus_color
            ELSE IF bonus_link # 0 THEN doc[bonus_link].text
            ELSE IF bonus_layer # 0 /\ doc[bonus_layer].children # <<>>
                    /\ titles(doc, bonus_layer) # <<>>
            THEN doc[titles(doc, bonus_layer)[1]].text
            ELSE "#000000"
        with_color == [with_territories EXCEPT !.bonus_color = bonus_color]
    IN  IF from_selection.raised # "" THEN abort
        ELSE IF opts.bonus_name = <<>> /\ operation = "create" THEN abort
        ELSE IF opts.bonus_name = <<>> /\ from_selection.link = 0 THEN abort
        ELSE IF from_selection.link # 0
                /\ get_bonus_link_id(bonus_name) # doc[from_selection.link].id THEN abort
        ELSE IF is_update_territories /\ selected_paths(doc, sel) # <<>> THEN abort
        ELSE IF is_update_territories /\ territory_groups = <<>> THEN abort
        ELSE IF target_bonus_layers.raised # ""
        THEN [raised |-> target_bonus_layers.raised, options |-> with_territories]
        ELSE IF is_create_update /\ target_bonus_layers.layers # <<>>
        THEN [abort EXCEPT !.options = with_territories]
        ELSE IF operation # "create" /\ existing_bonus_layers.raised # ""
        THEN [raised |-> existing_bonus_layers.raised, options |-> with_territories]
        ELSE IF operation # "create" /\ Len(existing_bonus_layers.layers) # 1
        THEN [abort EXCEPT !.options = with_territories]
        ELSE IF is_create_update /\ opts.bonus_value # <<>> /\ int_raises(opts.bonus_value)
        THEN [abort EXCEPT !.options = with_color]
        ELSE IF opts.bonus_value = <<>> /\ operation = "create"
        THEN [abort EXCEPT !.options = with_color]
        ELSE IF is_create_update /\ Color_raises(bonus_color)
        THEN [abort EXCEPT !.options = with_color]
        ELSE [raised |-> "",
              options |-> [with_color EXCEPT !.bonus_name = bonus_name_update,
                                             !.bonus_link_path = bonus_link,
                                             !.bonus_layer = bonus_layer]]

\* find_clone(element, root)
find_clone(doc, element, root) ==
    first(SelectSeq(doc[root].children,
                    LAMBDA c : doc[c].tag = "use" /\ doc[c].href = element))

\* remove_bonus_link(bonus_link)
remove_bonus_link(doc, bonus_link) ==
    IF bonus_link = 0 THEN doc
    ELSE IF is_bonus_link_group(doc, getparent(doc, bonus_link))
    THEN remove(doc, getparent(doc, bonus_link))
    ELSE remove(doc, bonus_link)

\* WZMapBuilder._set_bonus_link: the document and the bonus link group
WZMapBuilder_set_bonus_link(doc, bonus_link_path, bonus_name, bonus_color) ==
    LET bonus_link_id == get_bonus_link_id(bonus_name)
        path == IF bonus_link_path = 0 THEN Len(doc) + 1 ELSE bonus_link_path
        d0 == IF bonus_link_path = 0
              THEN Append(doc, Element("path", FALSE, NoId, <<>>, 0, "", <<>>))
              ELSE doc
        d1 == [d0 EXCEPT ![path].id = bonus_link_id, ![path].text = bonus_color]
        parent == getparent(d1, path)
        grouped == is_bonus_link_group(d1, parent)
        bonus_link == IF grouped THEN parent ELSE Len(d1) + 2
        d2 == IF grouped THEN d1
              ELSE remove(d1, path)
                   \o <<Element("text", FALSE, NoId, <<>>, 0, "", <<>>),
                        Element("g", FALSE, NoId, IdLabel(bonus_link_id), 0, "",
                                <<path, Len(d1) + 1>>)>>
        d3 == [d2 EXCEPT ![bonus_link].label = IdLabel(bonus_link_id)]
        bonus_link_layer == WZMapBuilder_get_metadata_layer(d3, MapLayers.BONUS_LINKS, 1)
    IN  [svg |-> IF getparent(d3, bonus_link) # bonus_link_layer
                 THEN add(d3, bonus_link_layer, bonus_link) ELSE d3,
         node |-> bonus_link]

\* WZMapBuilder._set_territory_stroke raises AttributeError: a bonus layer
\* without a title, or with a clone of an element that is gone
\* (is_territory_group(None)), or with a clone of an element that passes
\* is_territory_group and has no path child (it changes nothing but strokes)
WZMapBuilder_set_territory_stroke_raises(doc) ==
    \E l \in Range(WZMapBuilder_get_metadata_type_layers(doc, MapLayers.BONUSES)) :
        \/ titles(doc, l) = <<>>
        \/ \E c \in Range(doc[l].children) :
               /\ doc[c].href # 0
               /\ \/ href(doc, c) = 0
                  \/ /\ is_territory_group(doc, href(doc, c))
                     /\ \A p \in Range(doc[href(doc, c)].children) : doc[p].tag # "path"

\* WZMapBuilder._set_bonus after its call of _clean_up_bonus_inputs, which
\* ended as c says
set_bonus_cleaned(doc, operation, c) ==
    LET o == c.options
        created == Len(doc) + 2
        d_create ==
            add(doc \o <<Element("title", FALSE, NoId, <<>>, 0, o.bonus_color, <<>>),
                         Element("g", TRUE, NoId,
                                 bonus_layer_label(o.bonus_name, o.bonus_value),
                                 0, "", <<Len(doc) + 1>>)>>,
                WZMapBuilder_get_metadata_layer(doc, MapLayers.BONUSES, 1), created)
        old == get_bonus_layer_name_and_value(doc, o.bonus_layer)
        bonus_name == IF operation = "create" \/ o.bonus_name # <<>>
                      THEN o.bonus_name ELSE old.name
        bonus_value == IF operation = "create" \/ o.bonus_value # <<>>
                       THEN o.bonus_value ELSE str(old.value)
        bonus_layer == IF operation = "create" THEN created ELSE o.bonus_layer
        d_label == [doc EXCEPT ![o.bonus_layer].label =
                                   bonus_layer_label(bonus_name, bonus_value)]
        d_update == [d_label EXCEPT ![titles(doc, o.bonus_layer)[1]].text = o.bonus_color]
        d1 == IF operation = "create" THEN d_create ELSE d_update
        l == WZMapBuilder_set_bonus_link(d1, o.bonus_link_path, bonus_name, o.bonus_color)
    IN  IF c.raised # "" THEN [svg |-> doc, raised |-> c.raised, options |-> o]
        ELSE IF operation # "create" /\ titles(doc, o.bonus_layer) = <<>>
        THEN [svg |-> d_label, raised |-> "AttributeError", options |-> o]
        ELSE IF ~o.bonus_link_visible
        THEN [svg |-> remove_bonus_link(d1, o.bonus_link_path), raised |-> "",
              options |-> o]
        ELSE IF find_clone(l.svg, l.node, bonus_layer) # 0
        THEN [svg |-> l.svg, raised |-> "", options |-> o]
        ELSE [svg |-> add(Append(l.svg, Element("use", FALSE, NoId, <<>>, l.node, "", <<>>)),
                          bonus_layer, Len(l.svg) + 1),
              raised |-> "", options |-> o]

\* WZMapBuilder._set_bonus
WZMapBuilder_set_bonus(doc, opts, sel) ==
    set_bonus_cleaned(
        doc, opts.bonus_properties_tab,
        WZMapBuilder_clean_up_bonus_inputs(doc, opts, sel, opts.bonus_properties_tab))

\* WZMapBuilder._delete_bonus after its call of _clean_up_bonus_inputs
delete_bonus_cleaned(doc, c) ==
    LET o == c.options
        d1 == remove_bonus_link(remove(doc, o.bonus_layer), o.bonus_link_path)
    IN  IF c.raised # "" THEN [svg |-> doc, raised |-> c.raised, options |-> o]
        ELSE [svg |-> d1,
              raised |-> IF WZMapBuilder_set_territory_stroke_raises(d1)
                         THEN "AttributeError" ELSE "",
              options |-> o]

\* WZMapBuilder._delete_bonus
WZMapBuilder_delete_bonus(doc, opts, sel) ==
    delete_bonus_cleaned(doc, WZMapBuilder_clean_up_bonus_inputs(doc, opts, sel, "delete"))

\* Lines 275-285 of _add_territories_to_bonus raise AttributeError: a child
\* that is neither a title nor a clone, or, when adding, a clone of an
\* element that is gone
bonus_layer_children_raise(doc, bonus_layer, operation) ==
    \E c \in Range(doc[bonus_layer].children) :
        /\ doc[c].tag # "title"
        /\ \/ doc[c].tag # "use"
           \/ operation = "add" /\ href(doc, c) = 0

\* Lines 275-283: non_territory_elements, the titles and the clones of
\* bonus link groups
non_territory_elements(doc, bonus_layer) ==
    SelectSeq(doc[bonus_layer].children,
              LAMBDA c : \/ doc[c].tag = "title"
                         \/ is_bonus_link_group(doc, href(doc, c)))

\* Lines 276-285: the dict territory_clones that the loop over the children
\* of the bonus layer leaves, keyed by the id of the linked element
RECURSIVE territory_clones(_, _, _, _)
territory_clones(doc, children, operation, acc) ==
    IF children = <<>> THEN acc
    ELSE territory_clones(
             doc, Tail(children), operation,
             IF doc[Head(children)].tag # "title"
                /\ ~is_bonus_link_group(doc, href(doc, Head(children)))
                /\ operation = "add"
             THEN DictPut(acc, href(doc, Head(children)), Head(children))
             ELSE acc)

\* Lines 287-289: a new clone for every selected territory group that has
\* none.  The dict and the document with the new clones in the store
RECURSIVE clone_territory_groups(_, _, _)
clone_territory_groups(doc, territory_groups, clones) ==
    IF territory_groups = <<>> THEN [svg |-> doc, clones |-> clones]
    ELSE IF DictHas(clones, Head(territory_groups))
    THEN clone_territory_groups(doc, Tail(territory_groups), clones)
    ELSE clone_territory_groups(
             Append(doc, Element("use", FALSE, NoId, <<>>, Head(territory_groups), "", <<>>)),
             Tail(territory_groups),
             DictPut(clones, Head(territory_groups), Len(doc) + 1))

\* bonus_layer.remove_all()
remove_all(doc, e) == [doc EXCEPT ![e].children = <<>>]

\* WZMapBuilder._add_territories_to_bonus after its call of
\* _clean_up_bonus_inputs
add_territories_to_bonus_cleaned(doc, operation, c) ==
    LET o == c.options
        bonus_layer == o.bonus_layer
        kept == non_territory_elements(doc, bonus_layer)
        cloned == clone_territory_groups(
                      doc, o.territories,
                      territory_clones(doc, doc[bonus_layer].children, operation, <<>>))
        d1 == add_all(add_all(remove_all(cloned.svg, bonus_layer), bonus_layer,
                              DictValues(cloned.clones)),
                      bonus_layer, kept)
    IN  IF c.raised # "" THEN [svg |-> doc, raised |-> c.raised, options |-> o]
        ELSE IF operation \notin {"add", "replace"} \/ bonus_layer = 0
        THEN [svg |-> doc, raised |-> "AttributeError", options |-> o]
        ELSE IF bonus_layer_children_raise(doc, bonus_layer, operation)
        THEN [svg |-> doc, raised |-> "AttributeError", options |-> o]
        ELSE [svg |-> d1,
              raised |-> IF WZMapBuilder_set_territory_stroke_raises(d1)
                         THEN "AttributeError" ELSE "",
              options |-> o]

\* WZMapBuilder._add_territories_to_bonus
WZMapBuilder_add_territories_to_bonus(doc, opts, sel) ==
    IF BonusOperations_raises(opts.bonus_territories_add_replace)
    THEN [svg |-> doc, raised |-> "ValueError", options |-> opts]
    ELSE add_territories_to_bonus_cleaned(
             doc, opts.bonus_territories_add_replace,
             WZMapBuilder_clean_up_bonus_inputs(doc, opts, sel,
                                                opts.bonus_territories_add_replace))

RECURSIVE children_of_all(_, _)
children_of_all(doc, es) ==
    IF es = <<>> THEN <<>>
    ELSE doc[Head(es)].children \o children_of_all(doc, Tail(es))

\* self.find(f"./{Svg.GROUP}/{Svg.RECTANGLE}", group): the first rectangle of
\* a group child
center_point_rectangle(doc, group) ==
    first(SelectSeq(children_of_all(doc, SelectSeq(doc[group].children,
                                                   LAMBDA c : doc[c].tag = "g")),
                    LAMBDA r : doc[r].tag = "rect"))

\* [element.getparent() for element in elements]
parents(doc, es) == [k \in DOMAIN es |-> getparent(doc, es[k])]

\* WZMapBuilder._set_connection; the connector keeps the rectangles it links
\* in start and end
WZMapBuilder_set_connection(doc, opts, sel) ==
    LET territory_groups ==
            SelectSeq(sel, LAMBDA g : is_territory_group(doc, g))
            \o SelectSeq(parents(doc, sel), LAMBDA g : is_territory_group(doc, g))
        endpoints == [k \in DOMAIN territory_groups |->
                         center_point_rectangle(doc, territory_groups[k])]
        connection_type_layer ==
            WZMapBuilder_get_metadata_layer(
                doc, opts.connection_type,
                WZMapBuilder_get_metadata_layer(doc, MapLayers.CONNECTIONS, 1))
        connector == [Element("path", FALSE, NoId, <<>>, 0, "", <<>>)
                        EXCEPT !.start = endpoints[1], !.end = endpoints[2]]
    IN  IF \E k \in DOMAIN endpoints : endpoints[k] = 0
        THEN [svg |-> doc, raised |-> "AttributeError"]
        ELSE IF Len(endpoints) # 2 THEN [svg |-> doc, raised |-> "AbortExtension"]
        ELSE IF connection_type_layer = 0 THEN [svg |-> doc, raised |-> "AttributeError"]
        ELSE [svg |-> add(Append(doc, connector), connection_type_layer, Len(doc) + 1),
              raised |-> ""]

\* WZMapBuilder._upload_metadata: _post_map_details reads self.options.email,
\* api_token and map_id (line 367), which add_arguments does not define
\* (it defines upload_email, ...): whatever the commands are, the call ends
\* in an exception before anything is sent, and the document is not touched
WZMapBuilder_upload_metadata(doc, opts) == [svg |-> doc, raised |-> "AttributeError"]

\* WZMapBuilder.TAB_OPTIONS and the lists after it, lines 104-110
TAB_OPTIONS == {"about", "territories", "bonuses", "connections", "upload"}

TERRITORY_TAB_OPTIONS == {"create", "name"}

BONUS_TAB_OPTIONS == {"create-update", "bonus-territories", "delete"}

BONUS_CREATE_UPDATE_TAB_OPTIONS == {"create", "update"}

DISTRIBUTION_TAB_OPTIONS == {"crud", "distribution-territories"}

DISTRIBUTION_CRUD_TAB_OPTIONS == {"create", "update", "delete"}

\* WZMapBuilder._clean_up_tab_inputs
WZMapBuilder_clean_up_tab_inputs(opts) ==
    [opts EXCEPT
        !.tab = IF @ \in TAB_OPTIONS THEN @ ELSE "about",
        !.territory_tab = IF @ \in TERRITORY_TAB_OPTIONS THEN @ ELSE "create",
        !.bonus_tab = IF @ \in BONUS_TAB_OPTIONS THEN @ ELSE "create-update",
        !.bonus_properties_tab =
            IF @ \in BONUS_CREATE_UPDATE_TAB_OPTIONS THEN @ ELSE "create",
        !.distribution_tab = IF @ \in DISTRIBUTION_TAB_OPTIONS THEN @ ELSE "crud",
        !.distribution_crud_tab =
            IF @ \in DISTRIBUTION_CRUD_TAB_OPTIONS THEN @ ELSE "create"]

\* WZMapBuilder.effect, lines 157-174: the dict display is evaluated whole,
\* with its three inner lookups, then the entry of the tab is looked up and
\* called.  The handler that is called ("" for none) and the exception that
\* the lookups or the call raise ("" for none)
effect_dispatch(opts) ==
    IF opts.territory_tab \notin {"create", "name"}
       \/ opts.bonus_tab \notin {"create-update", "bonus-territories", "delete"}
       \/ opts.distribution_tab \notin {"crud", "distribution-territories"}
       \/ opts.tab \notin {"about", "territories", "bonuses", "connections",
                           "distributions", "upload"}
    THEN [handler |-> "", raised |-> "KeyError"]
    ELSE IF opts.tab = "about" THEN [handler |-> "", raised |-> "TypeError"]
    ELSE [handler |->
              CASE opts.tab = "territories" ->
                       (IF opts.territory_tab = "create" THEN "_create_territories"
                        ELSE "_set_territory_name")
                [] opts.tab = "bonuses" ->
                       (IF opts.bonus_tab = "create-update" THEN "_set_bonus"
                        ELSE IF opts.bonus_tab = "bonus-territories"
                        THEN "_add_territories_to_bonus" ELSE "_delete_bonus")
                [] opts.tab = "connections" -> "_set_connection"
                [] opts.tab = "distributions" ->
                       (IF opts.distribution_tab = "crud" THEN "_set_distribution_mode"
                        ELSE "_add_territories_to_distribution_mode")
                [] opts.tab = "upload" -> "_upload_metadata",
          raised |-> ""]

----------------------------------------------------------------------------
(* The documents the extension is run on and the requests of a run: the    *)
(* options of the dialog and the selection.  A selection lists its         *)
(* elements in the order of the store.                                     *)

\* A drawing as Inkscape saves it: one layer with three paths, the layer
\* with or without a title of its own
Drawing(titled) ==
    <<Element("svg", FALSE, NoId, <<>>, 0, "", <<2>>),
      Element("g", TRUE, NoId, <<"Layer 1">>, 0, "",
              IF titled THEN <<3, 4, 5, 6>> ELSE <<4, 5, 6>>),
      Element("title", FALSE, NoId, <<>>, 0, "Earthsea", <<>>),
      Element("path", FALSE, PathId(1), <<>>, 0, "", <<>>),
      Element("path", FALSE, PathId(2), <<>>, 0, "", <<>>),
      Element("path", FALSE, PathId(3), <<>>, 0, "", <<>>)>>

NameAB == <<"A", "B">>

NameA_B == <<"A", " ", "B">>

NameC == <<"C">>

\* The drawing with two of its paths made territories by a run of
\* _create_territories
MapWithTerritories ==
    WZMapBuilder_create_territories(
        WZMapBuilder_setup_map_layers(Drawing(FALSE)), DefaultOptions,
        <<4, 5>>, <<4, 5>>).svg

\* The elements of the document with the given property, in the order of
\* the store
Elements(doc, P(_, _)) ==
    SelectSeq([e \in DOMAIN doc |-> e], LAMBDA e : attached(doc, e) /\ P(doc, e))

IsMapPath(doc, e) == doc[e].tag = "path" /\ doc[e].id.prefix \in {"path", "Territory_"}

IsLinkGroup(doc, e) == is_bonus_link_group(doc, e)

IsTerritoryGroup(doc, e) == is_territory_group_parenthesised(doc, e)

\* The groups that pass is_territory_group without being territory groups
IsOtherGroup(doc, e) ==
    /\ doc[e].tag = "g"
    /\ is_territory_group(doc, e)
    /\ ~is_territory_group_parenthesised(doc, e)

\* The map with the bonus 'AB' of value 1, its bonus link, and the first
\* territory in it: a run of _set_bonus and a run of _add_territories_to_bonus
MapWithBonus ==
    LET created == WZMapBuilder_set_bonus(
                       MapWithTerritories,
                       [DefaultOptions EXCEPT !.bonus_name = NameAB, !.bonus_value = <<"1">>],
                       <<>>).svg
    IN  WZMapBuilder_add_territories_to_bonus(
            created, [DefaultOptions EXCEPT !.bonus_name = NameAB],
            <<Elements(created, IsTerritoryGroup)[1]>>).svg

\* The subsequences of a sequence
RECURSIVE SubSeqs(_)
SubSeqs(s) ==
    IF s = <<>> THEN {<<>>}
    ELSE SubSeqs(Tail(s)) \cup {<<Head(s)>> \o t : t \in SubSeqs(Tail(s))}

Singletons(s) == {<<s[k]>> : k \in DOMAIN s}

Request(opts, sel) == [options |-> opts, selection |-> sel]

\* Tab 'about', and the tabs that _clean_up_tab_inputs does not know
AboutRequests(doc) ==
    {Request([DefaultOptions EXCEPT !.tab = tab], <<>>) :
        tab \in {"about", "distributions", "help"}}

\* Tab 'territories': any of the paths selected, or one element
TerritoryRequests(doc) ==
    {Request([DefaultOptions EXCEPT !.tab = "territories", !.territory_tab = tt,
                                    !.territory_layer = layer], sel) :
        tt \in {"create", "convert"}, layer \in BOOLEAN,
        sel \in SubSeqs(Elements(doc, IsMapPath))}
    \cup
    {Request([DefaultOptions EXCEPT !.tab = "territories", !.territory_tab = "name",
                                    !.territory_name = "Gont",
                                    !.territory_layer = layer], sel) :
        layer \in BOOLEAN,
        sel \in {<<>>} \cup Singletons(Elements(doc, IsMapPath))
                       \cup Singletons(Elements(doc, IsTerritoryGroup))
                       \cup Singletons(Elements(doc, IsOtherGroup))}

BonusOptions == [DefaultOptions EXCEPT !.tab = "bonuses"]

\* Tab 'bonuses', create: a name, a value, with or without a bonus link;
\* and the inputs that _clean_up_bonus_inputs turns down
CreateBonusRequests(doc) ==
    {Request([BonusOptions EXCEPT !.bonus_name = name, !.bonus_value = <<"1">>,
                                  !.bonus_link_visible = visible], <<>>) :
        name \in {NameAB, NameA_B, NameC}, visible \in BOOLEAN}
    \cup
    {Request([BonusOptions EXCEPT !.bonus_properties_tab = "new", !.bonus_name = NameA_B,
                                  !.bonus_value = <<"1">>], <<>>)}
    \cup
    {Request([BonusOptions EXCEPT !.bonus_name = NameC, !.bonus_value = value,
                                  !.bonus_color = color], <<>>) :
        value \in {<<>>, <<"x">>, <<"-", "2">>}, color \in {"", "#00EE33", "teal?"}}
    \cup
    {Request([BonusOptions EXCEPT !.bonus_value = <<"1">>], <<>>)}

\* Tab 'bonuses', update: the bonus by its name or by its selected bonus
\* link, renamed or not
UpdateBonusRequests(doc) ==
    {Request([BonusOptions EXCEPT !.bonus_properties_tab = "update",
                                  !.bonus_name = name, !.bonus_name_update = new], <<>>) :
        name \in {NameAB, NameA_B, NameC}, new \in {<<>>, NameAB, NameA_B, NameC}}
    \cup
    {Request([BonusOptions EXCEPT !.bonus_properties_tab = "update",
                                  !.bonus_name = NameAB, !.bonus_name_update = new,
                                  !.bonus_value = <<"2">>,
                                  !.bonus_link_visible = FALSE], <<>>) :
        new \in {<<>>, NameC}}
    \cup
    {Request([BonusOptions EXCEPT !.bonus_properties_tab = "update",
                                  !.bonus_name_update = new], sel) :
        new \in {<<>>, NameC},
        sel \in {<<>>} \cup Singletons(Elements(doc, IsLinkGroup))}

\* Tab 'bonuses', delete
DeleteBonusRequests(doc) ==
    {Request([BonusOptions EXCEPT !.bonus_tab = "delete", !.bonus_name = name], <<>>) :
        name \in {NameAB, NameA_B, NameC}}
    \cup
    {Request([BonusOptions EXCEPT !.bonus_tab = "delete"], sel) :
        sel \in {<<>>} \cup Singletons(Elements(doc, IsLinkGroup))}

\* Tab 'bonuses', territories of a bonus: the bonus by its name or by its
\* selected bonus link, and any of the territory groups selected
BonusTerritoryRequests(doc) ==
    {Request([BonusOptions EXCEPT !.bonus_tab = "bonus-territories",
                                  !.bonus_name = name,
                                  !.bonus_territories_add_replace = operation], sel) :
        name \in {NameAB}, operation \in {"add", "replace"},
        sel \in SubSeqs(Elements(doc, IsTerritoryGroup))}
    \cup
    {Request([BonusOptions EXCEPT !.bonus_tab = "bonus-territories",
                                  !.bonus_name = NameA_B], sel) :
        sel \in Singletons(Elements(doc, IsTerritoryGroup))}
    \cup
    {Request([BonusOptions EXCEPT !.bonus_tab = "bonus-territories",
                                  !.bonus_territories_add_replace = operation],
             link \o sel) :
        operation \in {"add", "replace"},
        link \in Singletons(Elements(doc, IsLinkGroup)),
        sel \in SubSeqs(Elements(doc, IsTerritoryGroup))}
    \cup
    {Request([BonusOptions EXCEPT !.bonus_tab = "bonus-territories",
                                  !.bonus_name = NameAB,
                                  !.bonus_territories_add_replace = operation], sel) :
        operation \in {"add", "replace", "remove"},
        sel \in Singletons(Elements(doc, IsMapPath))
                \cup Singletons(Elements(doc, IsOtherGroup))}

\* Tab 'connections': any of the territory groups selected
ConnectionRequests(doc) ==
    {Request([DefaultOptions EXCEPT !.tab = "connections", !.connection_type = type], sel) :
        type \in {<<"normal">>, <<"Normal">>},
        sel \in SubSeqs(Elements(doc, IsTerritoryGroup))}

UploadRequests(doc) == {Request([DefaultOptions EXCEPT !.tab = "upload"], <<>>)}

----------------------------------------------------------------------------
(* A run of the extension: WZMapBuilder().run() calls effect(), which      *)
(* cleans the tab options, sets the metadata layers up and calls the       *)
(* handler of the tab.  One action for each handler that a run can reach.  *)

\* The validator is a program of its own: it does not run here
ValidatorIdle ==
    /\ feed = <<>>
    /\ pc = "idle"
    /\ territories = <<>>
    /\ bonuses = <<>>
    /\ idx = 0
    /\ validates = TRUE
    /\ out = <<>>
    /\ results = <<>>

\* The state a run of effect() leaves: the document, self.options, and what
\* the run was: the options and the selection it was started with, the
\* handler it called and the exception it ended with ("" for none)
Ran(handler, r, opts, req) ==
    /\ svg' = r.svg
    /\ selection' = req.selection
    /\ options' = opts
    /\ outcome' = [handler |-> handler, raised |-> r.raised, request |-> req.options]
    /\ runs' = runs + 1
    /\ UNCHANGED validator_vars

\* The state that a run of a handler of bonuses leaves: self.options are
\* those that _clean_up_bonus_inputs left
RanBonus(handler, r, req) == Ran(handler, r, r.options, req)

Dispatched(req, handler) ==
    effect_dispatch(WZMapBuilder_clean_up_tab_inputs(req.options)).handler = handler

\* effect() with tab 'about': the entry of the dict is None, and calling it
\* raises TypeError
About ==
    /\ runs < MaxRuns
    /\ \E req \in AboutRequests(svg) :
          LET o == WZMapBuilder_clean_up_tab_inputs(req.options)
          IN  /\ effect_dispatch(o).handler = ""
              /\ Ran("", [svg |-> WZMapBuilder_setup_map_layers(svg),
                          raised |-> effect_dispatch(o).raised], o, req)

CreateTerritories ==
    /\ runs < MaxRuns
    /\ \E req \in TerritoryRequests(svg) :
          LET o == WZMapBuilder_clean_up_tab_inputs(req.options)
              doc == WZMapBuilder_setup_map_layers(svg)
          IN  /\ Dispatched(req, "_create_territories")
              /\ \E order \in Orders(territories_to_process(doc, req.selection)) :
                    Ran("_create_territories",
                        WZMapBuilder_create_territories(doc, o, req.selection, order),
                        o, req)

SetTerritoryName ==
    /\ runs < MaxRuns
    /\ \E req \in TerritoryRequests(svg) :
          LET o == WZMapBuilder_clean_up_tab_inputs(req.options)
              doc == WZMapBuilder_setup_map_layers(svg)
          IN  /\ Dispatched(req, "_set_territory_name")
              /\ Ran("_set_territory_name",
                     WZMapBuilder_set_territory_name(doc, o, req.selection),
                     o, req)

SetBonus ==
    /\ runs < MaxRuns
    /\ \E req \in CreateBonusRequests(svg) \cup UpdateBonusRequests(svg) :
          /\ Dispatched(req, "_set_bonus")
          /\ RanBonus("_set_bonus",
                      WZMapBuilder_set_bonus(
                          WZMapBuilder_setup_map_layers(svg),
                          WZMapBuilder_clean_up_tab_inputs(req.options), req.selection),
                      req)

AddTerritoriesToBonus ==
    /\ runs < MaxRuns
    /\ \E req \in BonusTerritoryRequests(svg) :
          /\ Dispatched(req, "_add_territories_to_bonus")
          /\ RanBonus("_add_territories_to_bonus",
                      WZMapBuilder_add_territories_to_bonus(
                          WZMapBuilder_setup_map_layers(svg),
                          WZMapBuilder_clean_up_tab_inputs(req.options), req.selection),
                      req)

DeleteBonus ==
    /\ runs < MaxRuns
    /\ \E req \in DeleteBonusRequests(svg) :
          /\ Dispatched(req, "_delete_bonus")
          /\ RanBonus("_delete_bonus",
                      WZMapBuilder_delete_bonus(
                          WZMapBuilder_setup_map_layers(svg),
                          WZMapBuilder_clean_up_tab_inputs(req.options), req.selection),
                      req)

SetConnection ==
    /\ runs < MaxRuns
    /\ \E req \in ConnectionRequests(svg) :
          LET o == WZMapBuilder_clean_up_tab_inputs(req.options)
          IN  /\ Dispatched(req, "_set_connection")
              /\ Ran("_set_connection",
                     WZMapBuilder_set_connection(WZMapBuilder_setup_map_layers(svg), o,
                                                 req.selection),
                     o, req)

UploadMetadata ==
    /\ runs < MaxRuns
    /\ \E req \in UploadRequests(svg) :
          LET o == WZMapBuilder_clean_up_tab_inputs(req.options)
          IN  /\ Dispatched(req, "_upload_metadata")
              /\ Ran("_upload_metadata",
                     WZMapBuilder_upload_metadata(WZMapBuilder_setup_map_layers(svg), o),
                     o, req)

\* The extension before its first run on a document
BuilderStart ==
    /\ selection = <<>>
    /\ options = DefaultOptions
    /\ outcome = [handler |-> "", raised |-> "", request |-> DefaultOptions]
    /\ runs = 0
    /\ ValidatorIdle

BuilderInit ==
    /\ svg \in {Drawing(TRUE), Drawing(FALSE), MapWithTerritories, MapWithBonus}
    /\ BuilderStart

BuilderNext ==
    \/ About \/ CreateTerritories \/ SetTerritoryName
    \/ SetBonus \/ AddTerritoriesToBonus \/ DeleteBonus
    \/ SetConnection \/ UploadMetadata

\* Runs of the extension, one after the other, on one document
BuilderSpec == BuilderInit /\ [][BuilderNext]_vars

BonusInit ==
    /\ svg \in {MapWithTerritories, MapWithBonus}
    /\ BuilderStart

BonusNext == SetBonus \/ AddTerritoriesToBonus \/ DeleteBonus

\* The runs that create, update and delete bonuses and set their
\* territories, on a map whose territories are drawn
BonusSpec == BonusInit /\ [][BonusNext]_vars

----------------------------------------------------------------------------
(* Properties of the map builder                                           *)

\* The territory paths that are direct children of the element
TerritoryPathsIn(e) ==
    {c \in Range(svg[e].children) :
        svg[c].tag = "path" /\ svg[c].id.prefix = "Territory_"}

\* The groups of a rectangle and a text that are direct children
CenterPointGroupsIn(e) ==
    {c \in Range(svg[e].children) :
        /\ svg[c].tag = "g"
        /\ \E r \in Range(svg[c].children) : svg[r].tag = "rect"
        /\ \E t \in Range(svg[c].children) : svg[t].tag = "text"}

\* C26: is_territory_group returns true only for a group that is not a
\* layer and that has exactly one territory path child and exactly one
\* center-point group child, among 2 children, or 3 when one of them is a
\* title; it returns false for every layer, a bonus layer with a single title
\* child included
C26_TerritoryGroupsOnly ==
    \A e \in DOMAIN svg :
        is_territory_group(svg, e) =>
            /\ svg[e].tag = "g"
            /\ ~svg[e].layer
            /\ Cardinality(TerritoryPathsIn(e)) = 1
            /\ Cardinality(CenterPointGroupsIn(e)) = 1
            /\ \/ Len(svg[e].children) = 2
               \/ /\ Len(svg[e].children) = 3
                  /\ \E c \in Range(svg[e].children) : svg[c].tag = "title"

\* The territory paths of a document
TerritoryPaths(doc) ==
    {e \in DOMAIN doc :
        attached(doc, e) /\ doc[e].tag = "path" /\ doc[e].id.prefix = "Territory_"}

\* C27: after a run of _create_territories or _set_territory_name the
\* territory paths of the document have pairwise distinct ids Territory_<n>;
\* a path that was a territory keeps its id, and a newly converted path has
\* an id greater than every territory id present before
C27_DistinctTerritoryIds ==
    [][outcome'.handler \in {"_create_territories", "_set_territory_name"} =>
          /\ \A p, q \in TerritoryPaths(svg') : p # q => svg'[p].id # svg'[q].id
          /\ \A p \in TerritoryPaths(svg) : svg'[p].id = svg[p].id
          /\ \A p \in TerritoryPaths(svg') \ TerritoryPaths(svg) :
                 \A q \in TerritoryPaths(svg) : svg'[p].id.num > svg[q].id.num]_vars

\* The bonus layers of a document: the labelled groups below its top-level
\* layer WZ:Bonuses
BonusLayers(doc) ==
    {e \in DOMAIN doc :
        /\ doc[e].tag = "g"
        /\ doc[e].label # <<>>
        /\ \E b \in Range(doc[1].children) :
               /\ doc[b].label = <<"WZ:Bonuses">>
               /\ e \in Range(descendants(doc, b))}

\* The name in the label '<name>: <value>' of a bonus layer
BonusLayerName(label) ==
    LET k == CHOOSE j \in 1..Len(label) :
                 /\ label[j] = ":"
                 /\ \A i \in 1..(j - 1) : label[i] # ":"
    IN  SubSeq(label, 1, k - 1)

\* A name without its characters that are neither letters nor digits
Stripped(name) == SelectSeq(name, LAMBDA c : c \notin {" ", ":", "-", "_", "?", "#"})

\* The bonus layers whose name matches the given one
LayersNamed(doc, name) ==
    {l \in BonusLayers(doc) : Stripped(BonusLayerName(doc[l].label)) = Stripped(name)}

\* The bonus link names that the selection gives
SelectedLinkNames(doc, sel) ==
    {doc[p].id.name : p \in {q \in Range(sel) \cup UNION {Range(doc[g].children) : g \in Range(sel)} :
                                doc[q].tag = "path" /\ doc[q].id.prefix = "BonusLink_"}}

\* The bonus that a run was asked about: by its name, or else by the
\* selected bonus link
RequestedNames(doc, request, sel) ==
    IF request.bonus_name # <<>> THEN {request.bonus_name}
    ELSE SelectedLinkNames(doc, sel)

\* C28: no two bonus layers have names with the same bonus-link id (the name
\* without its non-alphanumeric characters); a create or a rename whose
\* target name matches an existing bonus layer, and an update or delete of
\* a bonus that does not exist, end in AbortExtension with the document
\* unchanged
C28_BonusNamesUnique ==
    [][LET request == outcome'.request
           is_delete == outcome'.handler = "_delete_bonus"
           is_update == /\ outcome'.handler = "_set_bonus"
                        /\ request.bonus_properties_tab = "update"
           is_create == outcome'.handler = "_set_bonus" /\ ~is_update
           target == IF is_update THEN request.bonus_name_update ELSE request.bonus_name
           aborted == outcome'.raised = "AbortExtension" /\ svg' = svg
       IN  /\ \A l, m \in BonusLayers(svg') :
                  l # m => Stripped(BonusLayerName(svg'[l].label))
                           # Stripped(BonusLayerName(svg'[m].label))
           /\ ((is_create \/ is_update) /\ target # <<>> /\ LayersNamed(svg, target) # {})
                  => aborted
           /\ ((is_update \/ is_delete)
               /\ (\A name \in RequestedNames(svg, request, selection') :
                       LayersNamed(svg, name) = {}))
                  => aborted]_vars

\* C28: a second bonus was created, and then the creation of a bonus whose
\* name differs from an existing one by a space only was turned down
C28_Witness ==
    /\ Cardinality(BonusLayers(svg)) = 2
    /\ outcome.handler = "_set_bonus"
    /\ outcome.request.bonus_properties_tab = "create"
    /\ outcome.request.bonus_name = <<"A", " ", "B">>
    /\ \E l \in BonusLayers(svg) : BonusLayerName(svg[l].label) = <<"A", "B">>
    /\ outcome.raised = "AbortExtension"

\* A territory group as create_territory makes it: a group, no layer, of a
\* territory path and a center-point group, with or without a title
IsProperTerritoryGroup(doc, e) ==
    /\ doc[e].tag = "g"
    /\ ~doc[e].layer
    /\ Cardinality({k \in DOMAIN doc[e].children :
                       /\ doc[doc[e].children[k]].tag = "path"
                       /\ doc[doc[e].children[k]].id.prefix = "Territory_"}) = 1
    /\ Cardinality({k \in DOMAIN doc[e].children :
                       /\ doc[doc[e].children[k]].tag = "g"
                       /\ \E r \in Range(doc[doc[e].children[k]].children) : doc[r].tag = "rect"
                       /\ \E t \in Range(doc[doc[e].children[k]].children) : doc[t].tag = "text"})
       = 1
    /\ Cardinality({k \in DOMAIN doc[e].children : doc[doc[e].children[k]].tag = "title"})
       = Len(doc[e].children) - 2

\* The territory groups of a document
TerritoryGroups(doc) ==
    {e \in DOMAIN doc : attached(doc, e) /\ IsProperTerritoryGroup(doc, e)}

\* How many children of the layer are clones of the element
ClonesIn(doc, layer, e) ==
    Cardinality({k \in DOMAIN doc[layer].children :
                    /\ doc[doc[layer].children[k]].tag = "use"
                    /\ doc[doc[layer].children[k]].href = e})

\* The children of the layer that are titles or clones of bonus link groups
TitleAndLinkClones(doc, layer) ==
    {c \in Range(doc[layer].children) :
        \/ doc[c].tag = "title"
        \/ /\ doc[c].tag = "use"
           /\ doc[c].href \in DOMAIN doc
           /\ attached(doc, doc[c].href)
           /\ \E p \in Range(doc[doc[c].href].children) :
                  doc[p].tag = "path" /\ doc[p].id.prefix = "BonusLink_"}

\* C29: a run of _add_territories_to_bonus with operation 'add' or 'replace'
\* that _clean_up_bonus_inputs does not turn down leaves the bonus layer with
\* exactly one clone of each selected territory group and, when adding, of
\* each territory group it held a clone of before, and with no clone of any
\* other territory group; the title and the bonus link clones of the layer
\* are kept as they were
C29_TerritoriesOfBonus ==
    [][(/\ outcome'.handler = "_add_territories_to_bonus"
        /\ outcome'.request.bonus_territories_add_replace \in {"add", "replace"}
        /\ outcome'.raised # "AbortExtension") =>
          \A name \in RequestedNames(svg, outcome'.request, selection') :
              \A layer \in LayersNamed(svg, name) :
                  /\ \A t \in TerritoryGroups(svg') :
                         ClonesIn(svg', layer, t) =
                             IF \/ t \in Range(selection')
                                \/ /\ outcome'.request.bonus_territories_add_replace = "add"
                                   /\ ClonesIn(svg, layer, t) > 0
                             THEN 1 ELSE 0
                  /\ TitleAndLinkClones(svg', layer) = TitleAndLinkClones(svg, layer)
                  /\ \A c \in TitleAndLinkClones(svg, layer) : svg'[c] = svg[c]]_vars

\* C30: whatever the tab options are, effect() ends in no KeyError of its
\* dispatch table and no TypeError of the call of its entry: with a tab of
\* territories, bonuses, connections or upload it calls a handler, and with
\* tab 'about', or a tab it does not recognise, it calls none and raises
\* nothing
C30_DispatchResolves ==
    runs > 0 =>
        IF outcome.request.tab \in {"territories", "bonuses", "connections", "upload"}
        THEN outcome.handler # ""
        ELSE outcome.handler = "" /\ outcome.raised = ""

====
